---------------------------- MODULE Spec2Model ----------------------------
(***************************************************************************)
(* Model of israeli-bank-firefly-importer: the transfer pair matcher       *)
(* (transfer-detector.ts) and the normal import run (importer doImport).   *)
(*                                                                         *)
(* Conventions                                                             *)
(*  - a missing/undefined string field is "" (both are falsy in the code)  *)
(*  - dates are integers counting day parts (DayParts per day); a missing  *)
(*    date is NoDate; moment's diff(.., 'days') truncates to whole days    *)
(*  - amounts are integers counting hundredths; a missing amount is        *)
(*    NoAmount; the code's 0.01 tolerance is AmountTolerance               *)
(***************************************************************************)
EXTENDS Integers, Sequences, FiniteSets, TLC

\* ------------------------------------------------------------------------
\* Bounds of the model
\* ------------------------------------------------------------------------
MaxTxs == 3

MaxExisting == 1

MaxDate == 8

MidDate == 5

MaxScraped == 2

MaxRuns == 2

MaxFailures == 1

\* longest list handed to the reference pass on its own
MaxPayments == 2

\* most pages of a paginated read
MaxPages == 3

\* most transactions of the ledger the duplicate removal is run on
MaxLedgerTxs == 3

\* most flat users handed to scrapeAccounts
MaxUsers == 3

\* day parts per day: the resolution of the model's timestamps
DayParts == 2

\* ------------------------------------------------------------------------
\* Program constants and encodings
\* ------------------------------------------------------------------------
AmountTolerance == 1

DefaultDateTolerance == 2

NoDate == -1

NoAmount == -1

Abs(n) == IF n < 0 THEN 0 - n ELSE n

\* moment(a).diff(moment(b), 'days') followed by Math.abs: whole days,
\* truncated toward zero
DaysDiff(a, b) == Abs(a - b) \div DayParts

VARIABLES
  \* --- pair matcher (detectAndConvertTransfers) ---
  transactions,       \* the input list
  existingTransfers,  \* the existing ledger transfers handed to the matcher
  dateTolerance,      \* the tolerance in days
  result,             \* the ExtendedConversionResult
  mpc,                \* "input" before the call, "done" after it
  \* --- the process and its command line (index.ts) ---
  args,               \* the command line flags
  since,              \* the argument of --since, "" without the option
  pc,                 \* position of the process / of doImport
  run,                \* number of import runs started so far
  \* --- the source snapshot (what the scrapers return) ---
  scraped,            \* the scraped raw transactions, account by account
  scrapResult,        \* the scrape results of this run, one per flat user
  \* --- the ledger (Firefly III) ---
  ledgerAccounts,     \* the ledger's accounts
  ledgerTxs,          \* the ledger's transactions, in creation order
  nextTxId,           \* the id the ledger gives to the next transaction
  ledgerConfig,       \* the persisted state blob: account key -> last import
  \* --- module-level caches (firefly.ts) ---
  expenseAccountCache,
  getTxsByTagCache,
  \* --- locals of one doImport call ---
  state,              \* the state blob read at the start of the run
  accountsMaps,
  scrapeFormattedTxs,
  preparedFireTxs,
  transferDetectedTxs,
  deduplicatedTxs,
  currentTxMap,
  idx,                \* position in the list the current stage walks
  \* --- observation ---
  writes,             \* requests sent to the ledger in this run: the writes, the failed reads
  failures,           \* number of failed requests so far
  hist,               \* facts about the initial ledger and the previous run
  \* --- reference pass (convertCreditCardPayments) on its own ---
  paymentTxs,         \* the transactions handed to the pass
  paymentAccountsMap, \* the accountsMap handed to the pass
  paymentResult,    \* the ConversionResult
  ppc,                \* "input" before the call, "done" after it
  \* --- getExternalId on its own ---
  identityTx,         \* the scraped transaction with its account
  identifyMethodMap,  \* config identifyMethod: account type -> strategy name
  externalId,         \* the value returned
  ipc,                \* "input" before the call, "returned" or "threw" after
  \* --- ledger reads on their own (paginate, getFireflyState) ---
  pages,              \* what the ledger answers, page after page
  nextPage,           \* paginate's cursor: the page to fetch, 0 for null
  fireFlyData,        \* paginate's accumulator
  listResult,         \* the list paginate returned
  gpc,                \* paginate: "loop", then "returned" or "threw"
  configResponse,     \* what the ledger answers to getConfig
  fireflyState,       \* the state getFireflyState returned
  spc,                \* getFireflyState: "input", then "returned" or "threw"
  \* --- locals of removeDuplicatesFromFirefly ---
  allTxs,        \* the transactions read at the start
  toDelete,           \* the transactions to delete, in order
  \* --- scrapeAccounts on its own ---
  scrapeUsers,        \* the flatUsers handed to scrapeAccounts
  parallel,           \* config scraper.parallel
  promises,           \* what each action's call of scrape has come to
  settleOrder,        \* the indexes of the scrapes, in the order they finished
  actionResults,      \* the results gathered, then the list returned
  apc                 \* "input", "running", then "returned"

matcherVars == <<transactions, existingTransfers, dateTolerance, result, mpc>>

importVars ==
  <<args, since, pc, run, scraped, scrapResult, ledgerAccounts, ledgerTxs, nextTxId, ledgerConfig,
    expenseAccountCache, getTxsByTagCache, state, accountsMaps,
    scrapeFormattedTxs, preparedFireTxs, transferDetectedTxs, deduplicatedTxs,
    currentTxMap, idx, writes, failures, hist>>

\* the variables of the functions exercised on their own: the reference
\* pass, getExternalId, the reads, removeDuplicatesFromFirefly
unitVars ==
  <<paymentTxs, paymentAccountsMap, paymentResult, ppc,
    identityTx, identifyMethodMap, externalId, ipc,
    pages, nextPage, fireFlyData, listResult, gpc, configResponse,
    fireflyState, spc,
    allTxs, toDelete,
    scrapeUsers, parallel, promises, settleOrder, actionResults, apc>>

vars == <<matcherVars, importVars, unitVars>>

EmptyMap == [k \in {} |-> 0]

NoHist == [ledgerWasEmpty |-> TRUE, prevClean |-> FALSE, failedCreates |-> {}]

\* the values of the run's locals before a run computes them
LocalsUnset ==
  /\ state = EmptyMap
  /\ accountsMaps = EmptyMap
  /\ scrapeFormattedTxs = <<>>
  /\ preparedFireTxs = <<>>
  /\ transferDetectedTxs = <<>>
  /\ deduplicatedTxs = <<>>
  /\ currentTxMap = EmptyMap
  /\ idx = 1
  /\ writes = <<>>

\* the variables of the functions exercised on their own, but those of the
\* one that is exercised, before any of them is called
UnitsUnused(used) ==
  /\ IF used = "payments" THEN TRUE
     ELSE /\ paymentTxs = <<>>
          /\ paymentAccountsMap = EmptyMap
          /\ paymentResult = [transfers |-> <<>>, remaining |-> <<>>, all |-> <<>>]
          /\ ppc = "off"
  /\ IF used = "identity" THEN TRUE
     ELSE /\ identityTx = EmptyMap
          /\ identifyMethodMap = EmptyMap
          /\ externalId = ""
          /\ ipc = "off"
  /\ IF used = "reads" THEN TRUE
     ELSE /\ pages = <<>>
          /\ nextPage = 0
          /\ fireFlyData = <<>>
          /\ listResult = <<>>
          /\ gpc = "off"
          /\ configResponse = EmptyMap
          /\ fireflyState = EmptyMap
          /\ spc = "off"
  /\ allTxs = <<>>
  /\ toDelete = <<>>
  /\ IF used = "acquisition" THEN TRUE
     ELSE /\ scrapeUsers = <<>>
          /\ parallel = FALSE
          /\ promises = <<>>
          /\ settleOrder = <<>>
          /\ actionResults = <<>>
          /\ apc = "off"

\* the importer's variables while the importer does not run
ImportUnused ==
  /\ args = {}
  /\ since = ""
  /\ pc = "off"
  /\ run = 0
  /\ scraped = <<>>
  /\ scrapResult = <<>>
  /\ ledgerAccounts = {}
  /\ ledgerTxs = <<>>
  /\ nextTxId = 1
  /\ ledgerConfig = EmptyMap
  /\ expenseAccountCache = EmptyMap
  /\ getTxsByTagCache = EmptyMap
  /\ LocalsUnset
  /\ failures = 0
  /\ hist = NoHist

\* ------------------------------------------------------------------------
\* transfer-detector.ts : the pair matcher
\* ------------------------------------------------------------------------

\* the validity filter of detectAndConvertTransfers
IsValidTx(tx) ==
  /\ tx.date # NoDate
  /\ tx.type # ""
  /\ tx.amount # NoAmount
  /\ tx.external_id # ""

\* [...validTxs].sort(by date): Array.prototype.sort is stable
RECURSIVE SortByDate(_)
SortByDate(s) ==
  IF s = <<>> THEN <<>>
  ELSE LET rest == SortByDate(SubSeq(s, 1, Len(s) - 1))
           x == s[Len(s)]
           k == Cardinality({i \in 1..Len(rest) : rest[i].date <= x.date})
       IN SubSeq(rest, 1, k) \o <<x>> \o SubSeq(rest, k + 1, Len(rest))

\* as IsMatchingWithdrawal, without the date window
IsMatchingWithdrawal_NoDate(deposit, withdrawal, processedTxIds, tol) ==
  /\ withdrawal.external_id \notin processedTxIds
  /\ Abs(deposit.amount - withdrawal.amount) <= AmountTolerance
  /\ deposit.destination_id # withdrawal.source_id

\* as IsMatchingWithdrawal, with the amount tolerance exclusive
IsMatchingWithdrawal_StrictAmount(deposit, withdrawal, processedTxIds, tol) ==
  /\ withdrawal.external_id \notin processedTxIds
  /\ DaysDiff(deposit.date, withdrawal.date) <= tol
  /\ Abs(deposit.amount - withdrawal.amount) < AmountTolerance
  /\ deposit.destination_id # withdrawal.source_id

\* the predicate of withdrawals.find(...) for one deposit
IsMatchingWithdrawal(deposit, withdrawal, processedTxIds, tol) ==
  /\ withdrawal.external_id \notin processedTxIds
  /\ DaysDiff(deposit.date, withdrawal.date) <= tol
  /\ Abs(deposit.amount - withdrawal.amount) <= AmountTolerance
  /\ deposit.destination_id # withdrawal.source_id

\* Array.prototype.find: index of the first element satisfying the
\* predicate, 0 when there is none
FindMatchingWithdrawal(deposit, withdrawals, processedTxIds, tol) ==
  LET hits == {j \in 1..Len(withdrawals) :
                 IsMatchingWithdrawal(deposit, withdrawals[j], processedTxIds, tol)}
  IN IF hits = {} THEN 0 ELSE CHOOSE j \in hits : \A k \in hits : j <= k

\* the predicate of existingTransfers.find(...) in findMatchingExistingTransfer
MatchesExistingTransfer(transfer, deposit, withdrawal, tol) ==
  /\ Abs(transfer.amount - deposit.amount) <= AmountTolerance
  /\ transfer.source_id = withdrawal.source_id
  /\ transfer.destination_id = deposit.destination_id
  /\ transfer.date # NoDate
  /\ DaysDiff(transfer.date, deposit.date) <= tol
  /\ DaysDiff(transfer.date, withdrawal.date) <= tol

\* as findMatchingExistingTransfer, never finding one
findMatchingExistingTransfer_None(deposit, withdrawal, existing, tol) == 0

findMatchingExistingTransfer(deposit, withdrawal, existing, tol) ==
  LET hits == {j \in 1..Len(existing) :
                 MatchesExistingTransfer(existing[j], deposit, withdrawal, tol)}
  IN IF hits = {} THEN 0 ELSE CHOOSE j \in hits : \A k \in hits : j <= k

TransferExternalId(withdrawalId, depositId) ==
  "transfer_" \o withdrawalId \o "_" \o depositId

\* combineTransferTags: the withdrawal's tags, then the deposit's new ones
RECURSIVE AddTags(_, _)
AddTags(acc, tags) ==
  IF tags = <<>> THEN acc
  ELSE AddTags(IF \E i \in 1..Len(acc) : acc[i] = Head(tags)
                 THEN acc ELSE Append(acc, Head(tags)),
               Tail(tags))

combineTransferTags_Concatenated(withdrawal, deposit) ==
  withdrawal.tags \o deposit.tags

combineTransferTags(withdrawal, deposit) ==
  AddTags(AddTags(<<>>, withdrawal.tags), deposit.tags)

createTransferTransaction(deposit, withdrawal) ==
  [ type               |-> "transfer",
    date               |-> withdrawal.date,
    amount             |-> deposit.amount,
    description        |->
      IF deposit.description # "" /\ deposit.description # withdrawal.description
        THEN withdrawal.description \o " -> " \o deposit.description
        ELSE withdrawal.description,
    notes              |->
      IF deposit.notes # "" /\ deposit.notes # withdrawal.notes
        THEN (IF withdrawal.notes # ""
                THEN withdrawal.notes \o "\n---\n" \o deposit.notes
                ELSE deposit.notes)
        ELSE withdrawal.notes,
    source_id          |-> withdrawal.source_id,
    destination_id     |-> deposit.destination_id,
    external_id        |-> TransferExternalId(withdrawal.external_id,
                                              deposit.external_id),
    currency_code      |-> IF deposit.currency_code # ""
                             THEN deposit.currency_code
                             ELSE withdrawal.currency_code,
    category_name      |-> "",
    internal_reference |-> withdrawal.internal_reference \o "_"
                             \o deposit.internal_reference,
    tags               |-> combineTransferTags(withdrawal, deposit),
    process_date       |-> "" ]

\* one iteration of deposits.forEach: st is the loop's accumulated state
MatchDeposit(deposit, withdrawals, existing, tol, st) ==
  IF deposit.external_id \in st.processedTxIds THEN st
  ELSE
    LET j == FindMatchingWithdrawal(deposit, withdrawals, st.processedTxIds, tol)
    IN IF j = 0 THEN st
       ELSE
         LET w == withdrawals[j]
             e == findMatchingExistingTransfer(deposit, w, existing, tol)
             ids == st.processedTxIds \cup {deposit.external_id, w.external_id}
         IN IF e # 0
              THEN [st EXCEPT
                     !.duplicatesOfExisting =
                        Append(@, [deposit |-> deposit, withdrawal |-> w,
                                   existingTransfer |-> existing[e]]),
                     !.processedTxIds = ids]
              ELSE [st EXCEPT
                     !.transfers = Append(@, createTransferTransaction(deposit, w)),
                     !.processedTxIds = ids]

RECURSIVE MatchDeposits(_, _, _, _, _, _)
MatchDeposits(deposits, i, withdrawals, existing, tol, st) ==
  IF i > Len(deposits) THEN st
  ELSE MatchDeposits(deposits, i + 1, withdrawals, existing, tol,
                     MatchDeposit(deposits[i], withdrawals, existing, tol, st))

\* as CollectRemaining, keeping the records that were paired
CollectRemaining_KeepPaired(txs, processedTxIds) ==
  SelectSeq(txs, LAMBDA tx : tx.external_id # "")

\* the final transactions.forEach that collects remainingTxs
CollectRemaining(txs, processedTxIds) ==
  SelectSeq(txs, LAMBDA tx : tx.external_id # ""
                             /\ tx.external_id \notin processedTxIds)

detectAndConvertTransfers(txs, tol, existing) ==
  LET validTxs    == SelectSeq(txs, IsValidTx)
      sortedTxs   == SortByDate(validTxs)
      deposits    == SelectSeq(sortedTxs, LAMBDA tx : tx.type = "deposit")
      withdrawals == SelectSeq(sortedTxs, LAMBDA tx : tx.type = "withdrawal")
      st == MatchDeposits(deposits, 1, withdrawals, existing, tol,
                          [ transfers |-> <<>>, duplicatesOfExisting |-> <<>>,
                            processedTxIds |-> {} ])
      remainingTxs == CollectRemaining(txs, st.processedTxIds)
  IN [ transfers            |-> st.transfers,
       duplicatesOfExisting |-> st.duplicatesOfExisting,
       remaining            |-> remainingTxs,
       all                  |-> st.transfers \o remainingTxs ]

\* ------------------------------------------------------------------------
\* The matcher's inputs
\* ------------------------------------------------------------------------
Ids == {"x", "y", "z"}

Tx(type, src, dst, date, amount, id) ==
  [ type |-> type, date |-> date, amount |-> amount,
    description |-> IF type = "deposit" THEN "in" ELSE "out",
    notes |-> "", source_id |-> src, destination_id |-> dst,
    external_id |-> id, currency_code |-> "ILS", category_name |-> "",
    internal_reference |-> "", tags |-> <<>>, process_date |-> "" ]

DepositAmount == 500

\* deposits, withdrawals, records that lack a required field, a record that
\* is already a transfer, and legs with tags, with another currency or none,
\* without description or with the description of the other leg
MatcherTxs ==
  {Tx("deposit", "", dst, d, DepositAmount, id) :
     dst \in {"A", "B"}, d \in {0, MaxDate}, id \in Ids}
  \cup
  {Tx("withdrawal", "A", "", d, a, id) :
     d \in {0, MidDate},
     a \in {DepositAmount + AmountTolerance, DepositAmount + 2 * AmountTolerance},
     id \in Ids}
  \cup
  { Tx("deposit", "", "B", NoDate, DepositAmount, "x"),
    Tx("withdrawal", "A", "", 0, DepositAmount, ""),
    Tx("withdrawal", "A", "", 0, NoAmount, "z"),
    Tx("", "A", "", 0, DepositAmount, "z"),
    Tx("transfer", "A", "B", 0, DepositAmount, "y"),
    [Tx("deposit", "", "B", 0, DepositAmount, "x") EXCEPT
       !.description = "", !.currency_code = "", !.tags = <<"t1", "t2">>],
    [Tx("deposit", "", "B", 0, DepositAmount, "x") EXCEPT
       !.description = "out", !.tags = <<"t2">>],
    [Tx("withdrawal", "A", "", 0, DepositAmount, "y") EXCEPT
       !.currency_code = "USD", !.tags = <<"t2", "t3">>] }

ExistingTransfer(id, date, amount, src, dst, extId) ==
  [ id |-> id, type |-> "transfer", date |-> date, amount |-> amount,
    source_id |-> src, destination_id |-> dst, external_id |-> extId ]

SeqsUpTo(S, n) == UNION {[1..k -> S] : k \in 0..n}

\* longer lists, deposits and withdrawals in turn, of records of two accounts
\* whose identifiers are unique within an account only
MatcherLongTxs ==
  LET deposits == {Tx("deposit", "", "B", d, DepositAmount, id) :
                     d \in {0, MaxDate}, id \in {"x", "y"}}
      withdrawals == {Tx("withdrawal", "A", "", d,
                         DepositAmount + AmountTolerance, id) :
                        d \in {0, MidDate}, id \in {"y", "z"}}
  IN {sq \in [1..(MaxTxs + 1) -> deposits \cup withdrawals] :
        \A k \in DOMAIN sq :
          sq[k].type = (IF k % 2 = 1 THEN "deposit" ELSE "withdrawal")}

NoResult ==
  [ transfers |-> <<>>, duplicatesOfExisting |-> <<>>, remaining |-> <<>>,
    all |-> <<>> ]

InitMatcher ==
  /\ transactions \in SeqsUpTo(MatcherTxs, MaxTxs) \cup MatcherLongTxs
  /\ existingTransfers \in
       SeqsUpTo({ExistingTransfer(901, 0, DepositAmount, "A", "B", "")}, MaxExisting)
  /\ dateTolerance = DefaultDateTolerance
  /\ result = NoResult
  /\ mpc = "input"
  /\ ImportUnused
  /\ UnitsUnused("")

\* one call of detectAndConvertTransfers
Detect ==
  /\ mpc = "input"
  /\ result' = detectAndConvertTransfers(transactions, dateTolerance,
                                         existingTransfers)
  /\ mpc' = "done"
  /\ UNCHANGED <<transactions, existingTransfers, dateTolerance>>
  /\ UNCHANGED <<importVars, unitVars>>

SpecMatcher == InitMatcher /\ [][Detect]_vars

\* ------------------------------------------------------------------------
\* Properties of the pair matcher (checked under SpecMatcher)
\* ------------------------------------------------------------------------
Indices(s) == 1..Len(s)

InputIds == {transactions[i].external_id : i \in Indices(transactions)} \ {""}

ValidDeposits ==
  {i \in Indices(transactions) :
     IsValidTx(transactions[i]) /\ transactions[i].type = "deposit"}

ValidWithdrawals ==
  {i \in Indices(transactions) :
     IsValidTx(transactions[i]) /\ transactions[i].type = "withdrawal"}

\* the transfer t is what the matcher builds from deposit D and withdrawal W
BuiltFrom(t, D, W) ==
  /\ t.type = "transfer"
  /\ t.external_id = TransferExternalId(W.external_id, D.external_id)
  /\ t.date = W.date
  /\ t.amount = D.amount
  /\ t.source_id = W.source_id
  /\ t.destination_id = D.destination_id

IsLegOfTransfer(e, t) ==
  \E o \in InputIds : t.external_id \in {TransferExternalId(e, o),
                                        TransferExternalId(o, e)}

InTransfers(e) ==
  Cardinality({k \in Indices(result.transfers) :
                 IsLegOfTransfer(e, result.transfers[k])})

InDuplicates(e) ==
  Cardinality({k \in Indices(result.duplicatesOfExisting) :
                 \/ result.duplicatesOfExisting[k].deposit.external_id = e
                 \/ result.duplicatesOfExisting[k].withdrawal.external_id = e})

InRemaining(e) ==
  Cardinality({k \in Indices(result.remaining) :
                 result.remaining[k].external_id = e})

InInput(e) ==
  Cardinality({k \in Indices(transactions) : transactions[k].external_id = e})

\* C1 as stated: every input external_id occurs exactly once across the
\* legs of the transfers, the legs of the duplicatesOfExisting pairs and
\* the remaining list.
C1_ExactlyOnce ==
  mpc = "done" =>
    \A e \in InputIds : InTransfers(e) + InDuplicates(e) + InRemaining(e) = 1

\* C1 amended: every input external_id is in exactly one of the three
\* outputs: a leg of exactly one transfer, or a leg of exactly one
\* duplicatesOfExisting pair, or in remaining, where it appears once per
\* input record that carries it (once when the input ids are distinct).
C1_AccountedInOneOutput ==
  mpc = "done" =>
    \A e \in InputIds :
      \/ InTransfers(e) = 1 /\ InDuplicates(e) = 0 /\ InRemaining(e) = 0
      \/ InTransfers(e) = 0 /\ InDuplicates(e) = 1 /\ InRemaining(e) = 0
      \/ /\ InTransfers(e) = 0 /\ InDuplicates(e) = 0
         /\ InRemaining(e) = InInput(e)

\* a transfer, a record without date and a shared external_id in one call
C1_Witness ==
  /\ mpc = "done"
  /\ Len(result.transfers) = 1
  /\ \E i \in Indices(transactions) : ~IsValidTx(transactions[i])
  /\ \E e \in InputIds : InInput(e) = 2 /\ InRemaining(e) = 0

\* the claims' "within tolerance": the two timestamps are at most tol days
\* apart
WithinDays(a, b, tol) == Abs(a - b) <= tol * DayParts

ClaimEligible(D, W) ==
  /\ Abs(D.amount - W.amount) <= AmountTolerance
  /\ WithinDays(D.date, W.date, dateTolerance)
  /\ D.destination_id # W.source_id

\* what the code pairs on: whole days, truncated
CodeEligible(D, W) ==
  /\ Abs(D.amount - W.amount) <= AmountTolerance
  /\ DaysDiff(D.date, W.date) <= dateTolerance
  /\ D.destination_id # W.source_id

Reconciled(D, W) ==
  \E k \in Indices(existingTransfers) :
    MatchesExistingTransfer(existingTransfers[k], D, W, dateTolerance)

TransfersWithId(id) ==
  {k \in Indices(result.transfers) : result.transfers[k].external_id = id}

Consumed(e) == InTransfers(e) + InDuplicates(e) >= 1

OnlyPartners(d, w) ==
  LET D == transactions[d]
      W == transactions[w]
  IN /\ \A w2 \in ValidWithdrawals \ {w} : ~CodeEligible(D, transactions[w2])
     /\ \A d2 \in ValidDeposits \ {d} : ~CodeEligible(transactions[d2], W)
     /\ D.external_id # W.external_id
     /\ InInput(D.external_id) = 1
     /\ InInput(W.external_id) = 1

InputPair(D, W) ==
  \E d \in ValidDeposits, w \in ValidWithdrawals :
    D = transactions[d] /\ W = transactions[w]

\* every produced transfer and every duplicatesOfExisting pair comes from
\* an input deposit and an input withdrawal that satisfy Ok
PairsSatisfy(Ok(_, _)) ==
  /\ \A k \in Indices(result.transfers) :
       \E d \in ValidDeposits, w \in ValidWithdrawals :
         /\ BuiltFrom(result.transfers[k], transactions[d], transactions[w])
         /\ Ok(transactions[d], transactions[w])
  /\ \A k \in Indices(result.duplicatesOfExisting) :
       LET p == result.duplicatesOfExisting[k]
       IN InputPair(p.deposit, p.withdrawal) /\ Ok(p.deposit, p.withdrawal)

\* a deposit and a withdrawal more than the tolerance apart are not paired
\* with each other; alone in the input, both stay in remaining
FarApartStay ==
  \A d \in ValidDeposits, w \in ValidWithdrawals :
    LET D == transactions[d]
        W == transactions[w]
    IN Abs(D.date - W.date) >= (dateTolerance + 1) * DayParts =>
         /\ \A k \in Indices(result.duplicatesOfExisting) :
              ~ (/\ result.duplicatesOfExisting[k].deposit = D
                 /\ result.duplicatesOfExisting[k].withdrawal = W)
         /\ Len(transactions) = 2 =>
              /\ result.transfers = <<>>
              /\ result.duplicatesOfExisting = <<>>
              /\ result.remaining = transactions

HasId(list, id) == \E k \in Indices(list) : list[k].external_id = id

\* C5: a pair for which an existing transfer has the deposit's amount
\* (within 0.01), the withdrawal's source, the deposit's destination and a
\* date within tolerance of both legs is never synthesized: it is in
\* duplicatesOfExisting with that existing transfer, and neither leg nor a
\* transfer for the pair is in the list handed on (all).
C5_DuplicateSuppression ==
  mpc = "done" =>
    /\ \A k \in Indices(result.transfers) :
         \E d \in ValidDeposits, w \in ValidWithdrawals :
           /\ BuiltFrom(result.transfers[k], transactions[d], transactions[w])
           /\ ~Reconciled(transactions[d], transactions[w])
    /\ \A k \in Indices(result.duplicatesOfExisting) :
         LET p == result.duplicatesOfExisting[k]
         IN /\ InputPair(p.deposit, p.withdrawal)
            /\ \E e \in Indices(existingTransfers) :
                 /\ p.existingTransfer = existingTransfers[e]
                 /\ MatchesExistingTransfer(existingTransfers[e], p.deposit,
                                            p.withdrawal, dateTolerance)
            /\ ~HasId(result.all, p.deposit.external_id)
            /\ ~HasId(result.all, p.withdrawal.external_id)
            /\ ~HasId(result.all, TransferExternalId(p.withdrawal.external_id,
                                                     p.deposit.external_id))
    /\ \A d \in ValidDeposits, w \in ValidWithdrawals :
         LET D == transactions[d]
             W == transactions[w]
         IN (OnlyPartners(d, w) /\ CodeEligible(D, W) /\ Reconciled(D, W)) =>
              /\ \E k \in Indices(result.duplicatesOfExisting) :
                   /\ result.duplicatesOfExisting[k].deposit = D
                   /\ result.duplicatesOfExisting[k].withdrawal = W
              /\ result.transfers = <<>>

\* a pair suppressed as a duplicate of an existing transfer, next to a
\* record that is handed on
C5_Witness ==
  /\ mpc = "done"
  /\ Len(result.duplicatesOfExisting) = 1
  /\ Len(result.all) = 1
  /\ Len(transactions) = 3

\* C17 --------------------------------------------------------------------
\* the records of a list that equal tx
Copies(list, tx) == Cardinality({k \in Indices(list) : list[k] = tx})

\* C17: a record that lacks a required field (date, type, amount or
\* external_id) takes part in no pairing, every transfer and every
\* duplicatesOfExisting pair being made of a valid deposit and a valid
\* withdrawal, and it is returned in remaining as often as the input has it.
C17_MalformedRetained ==
  mpc = "done" =>
    /\ \A k \in Indices(result.transfers) :
         \E d \in ValidDeposits, w \in ValidWithdrawals :
           BuiltFrom(result.transfers[k], transactions[d], transactions[w])
    /\ \A k \in Indices(result.duplicatesOfExisting) :
         /\ IsValidTx(result.duplicatesOfExisting[k].deposit)
         /\ IsValidTx(result.duplicatesOfExisting[k].withdrawal)
    /\ \A i \in Indices(transactions) :
         ~IsValidTx(transactions[i]) =>
           Copies(result.remaining, transactions[i])
             = Copies(transactions, transactions[i])

\* C19 --------------------------------------------------------------------
\* the valid records in ascending date order, input order among equal dates
SortedValid == SortByDate(SelectSeq(transactions, IsValidTx))

SortedDeposits == SelectSeq(SortedValid, LAMBDA tx : tx.type = "deposit")

SortedWithdrawals == SelectSeq(SortedValid, LAMBDA tx : tx.type = "withdrawal")

Least(S) == CHOOSE j \in S : \A k \in S : j <= k

RECURSIVE GreedyChoice(_)
\* the position of the withdrawal the i-th deposit is paired with, 0 for
\* none: the first eligible withdrawal that no earlier deposit was given
GreedyChoice(i) ==
  LET taken == {GreedyChoice(k) : k \in 1..(i - 1)} \ {0}
      hits  == {j \in Indices(SortedWithdrawals) :
                  /\ j \notin taken
                  /\ CodeEligible(SortedDeposits[i], SortedWithdrawals[j])}
  IN IF hits = {} THEN 0 ELSE Least(hits)

\* the deposits that get a withdrawal, in the order they are processed
GreedyPaired ==
  SelectSeq([i \in Indices(SortedDeposits) |-> i], LAMBDA i : GreedyChoice(i) # 0)

GreedyPairs ==
  [n \in Indices(GreedyPaired) |->
     [ deposit    |-> SortedDeposits[GreedyPaired[n]],
       withdrawal |-> SortedWithdrawals[GreedyChoice(GreedyPaired[n])] ]]

\* the pairs the result reports, transfers and reconciled pairs apart
ExpectedTransfers ==
  LET fresh == SelectSeq(GreedyPairs,
                         LAMBDA q : ~Reconciled(q.deposit, q.withdrawal))
  IN [n \in Indices(fresh) |->
        createTransferTransaction(fresh[n].deposit, fresh[n].withdrawal)]

ExpectedDuplicates ==
  SelectSeq(GreedyPairs, LAMBDA q : Reconciled(q.deposit, q.withdrawal))

ResultDuplicates ==
  [n \in Indices(result.duplicatesOfExisting) |->
     [ deposit    |-> result.duplicatesOfExisting[n].deposit,
       withdrawal |-> result.duplicatesOfExisting[n].withdrawal ]]

\* C19 as stated: the deposits are processed in ascending date order and
\* each is paired with the first eligible withdrawal, in ascending date
\* order, that no earlier deposit was paired with; the result holds these
\* pairs and no others.
C19_GreedyFirstEligible ==
  mpc = "done" =>
    /\ result.transfers = ExpectedTransfers
    /\ ResultDuplicates = ExpectedDuplicates

\* C27 --------------------------------------------------------------------
TagSet(tx) == {tx.tags[k] : k \in DOMAIN tx.tags}

\* the transfer t carries the tags of both legs, each once, and the
\* deposit's currency or else the withdrawal's
TagsAndCurrencyFrom(t, D, W) ==
  /\ TagSet(t) = TagSet(W) \cup TagSet(D)
  /\ Cardinality(TagSet(t)) = Len(t.tags)
  /\ t.currency_code =
       (IF D.currency_code # "" THEN D.currency_code ELSE W.currency_code)

Joined(W, D) == W.description \o " -> " \o D.description

parseCliArgs(a) ==
  [ dryRun   |-> "--dry-run" \in a,
    skipEdit |-> IF "--skip-edit" \in a THEN FALSE ELSE TRUE ]

\* doImport's options
dryRun == parseCliArgs(args).dryRun

skipEdit == parseCliArgs(args).skipEdit

\* ------------------------------------------------------------------------
\* The source snapshot
\* ------------------------------------------------------------------------
BankNumber == "1001"

CardNumber == "45805326"

CardLast4 == "5326"

\* a second card whose number ends with the same four digits
TwinCardNumber == "11115326"

\* a bank reference number that only ends with a card's last four digits
ForeignReference == "99995326"

\* slice(-4); every other string of the model has at most four characters
\* and is its own slice
Last4(str) ==
  IF str \in {CardNumber, TwinCardNumber, ForeignReference} THEN CardLast4
  ELSE str

\* the accounts of the deployment with their accountDetails, user by user
ScrapperAccounts ==
  << [ accountNumber  |-> BankNumber,
       accountDetails |-> [type |-> "leumi", kind |-> "bank"] ],
     [ accountNumber  |-> CardNumber,
       accountDetails |-> [type |-> "visaCal", kind |-> "credit-card"] ] >>

Raw(account, chargedAmount, description, identifier) ==
  [ account |-> account, status |-> "completed",
    chargedAmount |-> chargedAmount, date |-> 0, description |-> description,
    memo |-> "", identifier |-> identifier, chargedCurrency |-> "ILS",
    processedDate |-> "p1", category |-> "" ]

RawIds == {"x", CardLast4}

RawTxs ==
  {Raw(BankNumber, 0 - DepositAmount, d, i) : d \in {"visa", "rent"}, i \in RawIds}
    \cup {Raw(BankNumber, DepositAmount, "salary", "x")}
    \cup {Raw(CardNumber, 0 - DepositAmount, "shop", i) : i \in RawIds}
    \cup {Raw(CardNumber, DepositAmount, "payment", i) : i \in RawIds}

\* ------------------------------------------------------------------------
\* The ledger (Firefly III), as the importer sees it through firefly.ts
\* ------------------------------------------------------------------------
\* the id the ledger gives to the account it creates under a name
AccountId(name) == "acc_" \o name

LedgerAccount(name, number, type) ==
  [id |-> AccountId(name), account_number |-> number, name |-> name,
   type |-> type]

AssetAccounts ==
  {LedgerAccount(ScrapperAccounts[k].accountNumber,
                 ScrapperAccounts[k].accountNumber, "asset") :
     k \in DOMAIN ScrapperAccounts}

\* what the ledger stores of a created or updated transaction
Entry(id, tx) ==
  [ id |-> id, type |-> tx.type, external_id |-> tx.external_id,
    date |-> tx.date, amount |-> tx.amount, source_id |-> tx.source_id,
    destination_id |-> tx.destination_id, description |-> tx.description,
    tags |-> tx.tags ]

\* the ledgers an import starts on: a new one, one with the accounts, one
\* with a card purchase imported before merchant accounts existed, one that
\* holds that purchase twice (what --remove-duplicates is for)
InitialLedgers ==
  LET legacy(id) ==
        [ id |-> id, type |-> "withdrawal", external_id |-> "x", date |-> 0,
          amount |-> DepositAmount, source_id |-> AccountId(CardNumber),
          destination_id |-> "", description |-> "shop", tags |-> <<>> ]
  IN { [accounts |-> {}, txs |-> <<>>],
       [accounts |-> AssetAccounts, txs |-> <<>>],
       [accounts |-> AssetAccounts, txs |-> <<legacy(1)>>],
       [accounts |-> AssetAccounts, txs |-> <<legacy(1), legacy(2)>>] }

\* POST /api/v1/transactions
LedgerCreate(ledger, id, tx) == Append(ledger, Entry(id, tx))

\* DELETE /api/v1/transactions/{id}
LedgerDelete(ledger, id) == SelectSeq(ledger, LAMBDA e : e.id # id)

\* PUT /api/v1/transactions/{id}
LedgerUpdate(ledger, id, tx) ==
  [k \in DOMAIN ledger |-> IF ledger[k].id = id THEN Entry(id, tx) ELSE ledger[k]]

\* /api/v1/search/transactions with date_after:<day>
SearchTxs(ledger, sinceDay) ==
  SelectSeq(ledger, LAMBDA e : e.date \div DayParts > sinceDay)

\* /api/v1/tags/{tag}/transactions
TagTxs(ledger, tag) ==
  LET hit == SelectSeq(ledger, LAMBDA e : \E k \in DOMAIN e.tags : e.tags[k] = tag)
  IN [k \in DOMAIN hit |-> [type |-> hit[k].type, amount |-> hit[k].amount]]

\* a write request, as observed on the wire
Write(op, stage, key, ok) == [op |-> op, stage |-> stage, key |-> key, ok |-> ok]

\* ------------------------------------------------------------------------
\* The scrape and its results
\* ------------------------------------------------------------------------
\* config banks: one bank with one credit card
FlatUsers ==
  << [type |-> "leumi", username |-> "u1"],
     [type |-> "visaCal", username |-> "u2"] >>

getAccountIdentification(user) == user.type \o "_" \o user.username

\* an invalid moment, as moment("soon") is
InvalidDate == -2

\* moment(since)
Moment(str) == IF str = "2024-01-01" THEN 0 ELSE InvalidDate

\* getLastImport: the override, else the saved stamp of the user, else null
getLastImport(user, lastState, sinceArg) ==
  IF sinceArg # "" THEN Moment(sinceArg)
  ELSE IF getAccountIdentification(user) \in DOMAIN lastState
    THEN lastState[getAccountIdentification(user)]
  ELSE NoDate

\* getScrapFrom: a week before the last import (an invalid moment stays
\* invalid), five years back without one
getScrapFrom(lastImport) ==
  IF lastImport = NoDate THEN 0 - 5 * 365 * DayParts
  ELSE IF lastImport = InvalidDate THEN InvalidDate
  ELSE lastImport - 7 * DayParts

\* scrapeAccounts: the startDate each user's scraper is given
StartDates(lastState, sinceArg) ==
  [k \in DOMAIN FlatUsers |->
     getScrapFrom(getLastImport(FlatUsers[k], lastState, sinceArg))]

\* scrape: what a scraper answers, or the failed result built from its
\* exception, with the startDate it was asked for
ScrapeResults(startDates) ==
  {[k \in DOMAIN FlatUsers |-> [success |-> ok[k], startDate |-> startDates[k]]] :
     ok \in [DOMAIN FlatUsers -> BOOLEAN]}

\* the accounts of a result: a failed result carries none; the k-th user owns
\* the k-th account of the deployment
AccountsOfResult(results, k) ==
  IF results[k].success THEN <<ScrapperAccounts[k]>> ELSE <<>>

\* a failed scrape of any user leaves no account at all
parseScrapResult_AllOrNothing(results) ==
  IF \A k \in DOMAIN results : results[k].success THEN ScrapperAccounts ELSE <<>>

\* parseScrapResult: the accounts of all results, in the users' order
parseScrapResult(results) ==
  IF results = <<>> THEN <<>>
  ELSE AccountsOfResult(results, 1) \o AccountsOfResult(results, 2)

getSuccessfulScrappedUsers_All(results) ==
  [j \in DOMAIN FlatUsers |-> FlatUsers[j]]

getSuccessfulScrappedUsers(results) ==
  LET ks == SelectSeq([k \in DOMAIN FlatUsers |-> k],
                      LAMBDA k : k \in DOMAIN results /\ results[k].success)
  IN [j \in DOMAIN ks |-> FlatUsers[ks[j]]]

\* doImport's accounts, handed to createAndMapAccounts as scrapperAccounts
scrapperAccounts == parseScrapResult(scrapResult)

ScrapedNumbers ==
  {scrapperAccounts[k].accountNumber : k \in DOMAIN scrapperAccounts}

\* ------------------------------------------------------------------------
\* createAndMapAccounts
\* ------------------------------------------------------------------------
ScrapperAccountOf(number) ==
  CHOOSE a \in {ScrapperAccounts[k] : k \in DOMAIN ScrapperAccounts} :
    a.accountNumber = number

\* the scraped account a ledger account stands for, by number, then by name
MatchedAccountNumber(x) ==
  IF x.account_number \in ScrapedNumbers THEN x.account_number
  ELSE IF x.name \in ScrapedNumbers THEN x.name
  ELSE ""

MappedAccount(number, id) ==
  [ type |-> ScrapperAccountOf(number).accountDetails.type,
    kind |-> ScrapperAccountOf(number).accountDetails.kind,
    id   |-> id ]

\* the accountsMap built from the accounts the ledger already has
ExistingAccountsMap(accounts) ==
  LET matched == {n \in ScrapedNumbers :
                    \E x \in accounts : MatchedAccountNumber(x) = n}
  IN [n \in matched |->
        MappedAccount(n, (CHOOSE x \in accounts : MatchedAccountNumber(x) = n).id)]

\* scrapperAccounts' numbers that the accountsMap lacks, in scraped order
missedAccounts(accountsMap) ==
  LET numbers == [k \in DOMAIN scrapperAccounts |-> scrapperAccounts[k].accountNumber]
  IN SelectSeq(numbers, LAMBDA n : n \notin DOMAIN accountsMap)

\* the accountsMap after the first n missed accounts were created
WithCreated(accountsMap, missed, n) ==
  [num \in DOMAIN accountsMap \cup {missed[k] : k \in 1..n} |->
     IF num \in DOMAIN accountsMap THEN accountsMap[num]
     ELSE MappedAccount(num, AccountId(num))]

\* ------------------------------------------------------------------------
\* firefly.ts : getOrCreateExpenseAccount, getTxsByTag
\* ------------------------------------------------------------------------
\* the cache answers only when it holds a non-empty id
CachedExpenseAccount(cache, merchantName) ==
  IF merchantName \in DOMAIN cache THEN cache[merchantName] ELSE ""

\* allExpenseAccounts.find(account => account.attributes.name === merchantName)
FindExpenseAccount(accounts, merchantName) ==
  IF \E a \in accounts : a.type = "expense" /\ a.name = merchantName
    THEN (CHOOSE a \in accounts : a.type = "expense" /\ a.name = merchantName).id
    ELSE ""

Put(map, key, value) ==
  [k \in DOMAIN map \cup {key} |-> IF k = key THEN value ELSE map[k]]

\* getTxsByTag: the cached answer if the tag was ever asked, else the ledger's
getTxsByTag(tag, cache, ledger) ==
  IF tag \in DOMAIN cache THEN cache[tag] ELSE TagTxs(ledger, tag)

\* getTxsByTagCache after the tags were asked: a tag asked for the first time
\* keeps the ledger's answer of that moment
CacheAfter(cache, tags, ledger) ==
  [t \in DOMAIN cache \cup tags |->
     IF t \in DOMAIN cache THEN cache[t] ELSE TagTxs(ledger, t)]

\* ------------------------------------------------------------------------
\* doImport : normalisation of the scraped transactions
\* ------------------------------------------------------------------------
\* accounts.flatMap(...) and its two filters
FlatTxs(snapshot, accountsMap) ==
  SelectSeq(snapshot, LAMBDA x :
    /\ x.status = "completed"
    /\ x.account \in DOMAIN accountsMap
    /\ x.chargedAmount # 0)

\* the card purchases that ask for a merchant account
NeedsExpenseAccount(x, account) ==
  /\ x.chargedAmount < 0
  /\ account.kind = "credit-card"
  /\ x.description # ""

\* config identifyMethod of the modelled deployment: no entry
IdentifyMethodConfig == EmptyMap

\* the getters' names
Getters == {"hash", "identifier"}

\* hash(omitFields(x)): a digest of every field but account and category
hash(x) ==
  << "sha", x.status, x.chargedAmount, x.date, x.description, x.memo,
     x.identifier, x.chargedCurrency, x.processedDate >>

\* identifyMethodMap[accountType] || 'identifier'
IdentifyMethodOf(accountType, map) ==
  IF accountType \in DOMAIN map /\ map[accountType] # "" THEN map[accountType]
  ELSE "identifier"

\* getters[identifyMethod] ?? getters.identifier
GetterOf(identifyMethod) ==
  IF identifyMethod \in Getters THEN identifyMethod ELSE "identifier"

\* the call throws when no getter is found
getExternalIdThrows(accountType, map) ==
  GetterOf(IdentifyMethodOf(accountType, map)) = ""

getExternalId(x, accountType, map) ==
  IF GetterOf(IdentifyMethodOf(accountType, map)) = "hash" THEN hash(x)
  ELSE x.identifier

\* --- getExternalId on its own ---
\* a raw transaction of the bank account or of the card, and what config
\* identifyMethod can say for each account type
InitIdentity ==
  /\ identityTx \in
       {[Raw(n, a, d, i) EXCEPT !.account = MappedAccount(n, AccountId(n))] :
          n \in {BankNumber, CardNumber}, a \in {0 - DepositAmount, DepositAmount},
          d \in {"shop", "rent"}, i \in {"x", "y", ""}}
  /\ identifyMethodMap \in
       [{"leumi", "visaCal"} -> {"", "hash", "identifier", "md5"}]
  /\ externalId = ""
  /\ ipc = "input"
  /\ transactions = <<>>
  /\ existingTransfers = <<>>
  /\ dateTolerance = DefaultDateTolerance
  /\ result = [ transfers |-> <<>>, duplicatesOfExisting |-> <<>>,
                remaining |-> <<>>, all |-> <<>> ]
  /\ mpc = "off"
  /\ ImportUnused
  /\ UnitsUnused("identity")

\* one call of getExternalId
GetExternalId ==
  /\ ipc = "input"
  /\ IF getExternalIdThrows(identityTx.account.type, identifyMethodMap)
       THEN ipc' = "threw" /\ externalId' = ""
       ELSE /\ ipc' = "returned"
            /\ externalId' = getExternalId(identityTx, identityTx.account.type,
                                            identifyMethodMap)
  /\ UNCHANGED <<identityTx, identifyMethodMap, matcherVars, importVars,
                 paymentTxs, paymentAccountsMap, paymentResult, ppc, pages,
                 nextPage, fireFlyData, listResult, gpc, configResponse,
                 fireflyState, spc, allTxs, toDelete, scrapeUsers, parallel,
                 promises, settleOrder, actionResults, apc>>

SpecIdentity == InitIdentity /\ [][GetExternalId]_vars

\* config currencySymbolMap is empty
getCurrencyCode(x) == x.chargedCurrency

FormatTx(x, account, destinationId) ==
  [ type               |-> IF x.chargedAmount > 0 THEN "deposit" ELSE "withdrawal",
    date               |-> x.date,
    amount             |-> Abs(x.chargedAmount),
    description        |-> x.description,
    notes              |-> x.memo,
    source_id          |-> IF x.chargedAmount > 0 THEN "" ELSE account.id,
    destination_id     |-> destinationId,
    internal_reference |-> x.identifier,
    external_id        |-> getExternalId(x, account.type, IdentifyMethodConfig),
    currency_code      |-> getCurrencyCode(x),
    process_date       |-> x.processedDate,
    category_name      |-> x.category,
    tags               |-> <<>> ]

\* ------------------------------------------------------------------------
\* credit-cards.ts : the billing-cycle pass
\* ------------------------------------------------------------------------
\* config creditCardDesc
CreditCardDescConfig == << [desc |-> "visa", creditCard |-> "visaCal", method |-> ""] >>

\* Object.entries(accountsMap), Object.values(accountsMap): integer-like keys come in ascending numeric
\* order (1001 < 11115326 < 45805326)
ObjectKeys(map) ==
  SelectSeq(<<BankNumber, TwinCardNumber, CardNumber>>, LAMBDA n : n \in DOMAIN map)

\* the ids of the mapped credit cards of one company, in Object.values order
CardIdsOfType(accountsMap, type) ==
  LET cards == SelectSeq(ObjectKeys(accountsMap), LAMBDA n :
                 /\ accountsMap[n].kind = "credit-card"
                 /\ accountsMap[n].type = type)
  IN [k \in DOMAIN cards |-> accountsMap[cards[k]].id]

getCcDesc(accountsMap) ==
  LET descs == {CreditCardDescConfig[k].desc : k \in DOMAIN CreditCardDescConfig}
      entry(d) == CHOOSE e \in {CreditCardDescConfig[k] : k \in DOMAIN CreditCardDescConfig} :
                    e.desc = d
  IN [d \in descs |->
        [ ids    |-> CardIdsOfType(accountsMap, entry(d).creditCard),
          method |-> IF entry(d).method # "" THEN entry(d).method ELSE "process-date" ]]

ccTag(tx, accountsMap) ==
  LET isCc == \E n \in DOMAIN accountsMap :
                /\ accountsMap[n].kind = "credit-card"
                /\ (accountsMap[n].id = tx.source_id \/ accountsMap[n].id = tx.destination_id)
      accountId == IF tx.source_id # "" THEN tx.source_id ELSE tx.destination_id
  IN IF isCc THEN << accountId \o "_" \o tx.process_date >> ELSE <<>>

\* moment(processDate).subtract(1, 'day').toISOString()
PrevDay(processDate) == processDate \o "-1d"

RECURSIVE SumTagged(_, _)
SumTagged(res, i) ==
  IF i > Len(res) THEN 0
  ELSE (IF res[i].type = "deposit" THEN res[i].amount ELSE 0 - res[i].amount)
         + SumTagged(res, i + 1)

getTxAmount(processDate, accountId, cache, ledger) ==
  LET first == getTxsByTag(accountId \o "_" \o processDate, cache, ledger)
      res   == IF Len(first) = 0
                 THEN getTxsByTag(accountId \o "_" \o PrevDay(processDate), cache, ledger)
                 ELSE first
  IN SumTagged(res, 1)

\* the tags getTxAmount asks getTxsByTag for
TagsOfTxAmount(processDate, accountId, cache, ledger) ==
  {accountId \o "_" \o processDate}
    \cup (IF Len(getTxsByTag(accountId \o "_" \o processDate, cache, ledger)) = 0
            THEN {accountId \o "_" \o PrevDay(processDate)}
            ELSE {})

\* Array.prototype.indexOf, 1-based; 0 when absent
IndexOf(sq, v) ==
  IF \E k \in DOMAIN sq : sq[k] = v
    THEN CHOOSE k \in DOMAIN sq : sq[k] = v /\ \A j \in 1..(k - 1) : sq[j] # v
    ELSE 0

\* processByProcessDate taking a single candidate whatever its net amount
processByProcessDate_AcceptZero(tx, ids, cache, ledger) ==
  IF tx.process_date = "" \/ Len(ids) = 0 THEN ""
  ELSE IF Len(ids) = 1 THEN ids[1]
  ELSE LET amountsByIndex ==
             [k \in DOMAIN ids |-> getTxAmount(tx.process_date, ids[k], cache, ledger)]
           nonAbsAmount == IF tx.type = "deposit" THEN tx.amount ELSE 0 - tx.amount
           index == IndexOf(amountsByIndex, nonAbsAmount)
       IN IF index = 0 THEN "" ELSE ids[index]

\* the card account a billing-cycle lookup settles on, "" for null
processByProcessDate(tx, ids, cache, ledger) ==
  IF tx.process_date = "" \/ Len(ids) = 0 THEN ""
  ELSE IF Len(ids) = 1
    THEN (IF getTxAmount(tx.process_date, ids[1], cache, ledger) = 0 THEN "" ELSE ids[1])
  ELSE LET amountsByIndex ==
             [k \in DOMAIN ids |-> getTxAmount(tx.process_date, ids[k], cache, ledger)]
           nonAbsAmount == IF tx.type = "deposit" THEN tx.amount ELSE 0 - tx.amount
           index == IndexOf(amountsByIndex, nonAbsAmount)
       IN IF index = 0 THEN "" ELSE ids[index]

processByReference(tx, accountsMap) ==
  IF tx.internal_reference = "" \/ tx.internal_reference \notin DOMAIN accountsMap
    THEN ""
    ELSE accountsMap[tx.internal_reference].id

\* ccTransfer returns the record untouched in these cases
SkipsCcTransfer(tx, ccDesc) ==
  tx.type = "transfer" \/ tx.description = "" \/ tx.description \notin DOMAIN ccDesc

ccTransfer(tx, ccDesc, accountsMap, cache, ledger) ==
  IF SkipsCcTransfer(tx, ccDesc) THEN tx
  ELSE LET entry == ccDesc[tx.description]
           accountId == IF entry.method = "reference"
                          THEN processByReference(tx, accountsMap)
                          ELSE processByProcessDate(tx, entry.ids, cache, ledger)
       IN IF accountId = "" THEN tx
          ELSE [tx EXCEPT
                  !.type = "transfer",
                  !.source_id = IF @ # "" THEN @ ELSE accountId,
                  !.destination_id = IF @ # "" THEN @ ELSE accountId]

manipulateTx(tx, ccDesc, accountsMap, cache, ledger) ==
  ccTransfer([tx EXCEPT !.tags = ccTag(tx, accountsMap)], ccDesc, accountsMap,
             cache, ledger)

\* the tags manipulateTx asks getTxsByTag for
TagsOfManipulateTx(tx, ccDesc, cache, ledger) ==
  IF SkipsCcTransfer(tx, ccDesc) THEN {}
  ELSE IF ccDesc[tx.description].method = "reference" THEN {}
  ELSE IF tx.process_date = "" THEN {}
  ELSE UNION {TagsOfTxAmount(tx.process_date, ccDesc[tx.description].ids[k],
                             cache, ledger) :
                k \in DOMAIN ccDesc[tx.description].ids}

\* manipulateTxs: no write happens during the pass, so a tag asked twice in
\* it gets the answer the ledger gave the first time
manipulateTxs(txs, accountsMap, cache, ledger) ==
  [ txs   |-> [k \in DOMAIN txs |->
                 manipulateTx(txs[k], getCcDesc(accountsMap), accountsMap,
                              cache, ledger)],
    cache |-> CacheAfter(cache,
                UNION {TagsOfManipulateTx(txs[k], getCcDesc(accountsMap),
                                          cache, ledger) : k \in DOMAIN txs},
                ledger) ]

\* ------------------------------------------------------------------------
\* transfer-detector.ts : the reference pass and the matcher's entry point
\* ------------------------------------------------------------------------
\* ccAccountMap: a card's id under its full number and under its last four
\* digits; a key written by two cards keeps the id of the card visited last
ccAccountMap(accountsMap) ==
  LET entries == ObjectKeys(accountsMap)
      cards   == SelectSeq(entries, LAMBDA n : accountsMap[n].kind = "credit-card")
      keys    == {cards[k] : k \in DOMAIN cards}
                   \cup {Last4(cards[k]) : k \in DOMAIN cards}
      sets(k, key) == cards[k] = key \/ Last4(cards[k]) = key
      last(key) == CHOOSE k \in DOMAIN cards :
                     sets(k, key) /\ \A j \in DOMAIN cards : j > k => ~sets(j, key)
  IN [key \in keys |-> accountsMap[cards[last(key)]].id]

CcAccountId(map, internalRef) ==
  IF internalRef \in DOMAIN map THEN map[internalRef]
  ELSE IF Last4(internalRef) \in DOMAIN map THEN map[Last4(internalRef)]
  ELSE ""

IsCreditCardPayment(tx, map) ==
  /\ tx.type = "withdrawal"
  /\ tx.internal_reference # ""
  /\ CcAccountId(map, tx.internal_reference) # ""

PaymentTransfer(tx, map) ==
  [tx EXCEPT
     !.type = "transfer",
     !.destination_id = CcAccountId(map, tx.internal_reference),
     !.description = IF @ # "" THEN @ ELSE "Credit card payment",
     !.notes = IF @ # "" THEN @ \o "\nCredit Card Payment (auto-detected)"
                         ELSE "Credit Card Payment (auto-detected)"]

convertCreditCardPayments(txs, accountsMap) ==
  LET map       == ccAccountMap(accountsMap)
      payments  == SelectSeq(txs, LAMBDA tx : IsCreditCardPayment(tx, map))
      remaining == SelectSeq(txs, LAMBDA tx : ~IsCreditCardPayment(tx, map))
      transfers == [k \in DOMAIN payments |-> PaymentTransfer(payments[k], map)]
  IN [transfers |-> transfers, remaining |-> remaining,
      all |-> transfers \o remaining]

\* --- the reference pass on its own ---
\* the accounts a deployment can have scraped
PaymentAccounts ==
  [n \in {BankNumber, CardNumber, TwinCardNumber} |->
     [ type |-> IF n = BankNumber THEN "leumi" ELSE "visaCal",
       kind |-> IF n = BankNumber THEN "bank" ELSE "credit-card",
       id   |-> AccountId(n) ]]

\* formatted transactions of the bank account and of a card
PaymentTx(type, account, reference, id) ==
  [ type               |-> type,
    date               |-> 0,
    amount             |-> DepositAmount,
    description        |-> "",
    notes              |-> "",
    source_id          |-> IF type = "withdrawal" THEN AccountId(account) ELSE "",
    destination_id     |-> IF type = "deposit" THEN AccountId(account) ELSE "",
    internal_reference |-> reference,
    external_id        |-> id,
    currency_code      |-> "ILS",
    process_date       |-> "",
    category_name      |-> "",
    tags               |-> <<>> ]

\* up to MaxPayments formatted transactions, with any reference, and the
\* accounts map of any subset of the accounts
InitPayments ==
  /\ paymentTxs \in
       SeqsUpTo({PaymentTx(t, a, r, i) :
                   t \in {"withdrawal", "deposit"},
                   a \in {BankNumber, CardNumber},
                   r \in {"", CardLast4, CardNumber, TwinCardNumber,
                          ForeignReference, "9999"},
                   i \in {"x", "y"}}, MaxPayments)
  /\ paymentAccountsMap \in
       {[n \in S |-> PaymentAccounts[n]] : S \in SUBSET DOMAIN PaymentAccounts}
  /\ paymentResult = [transfers |-> <<>>, remaining |-> <<>>, all |-> <<>>]
  /\ ppc = "input"
  /\ transactions = <<>>
  /\ existingTransfers = <<>>
  /\ dateTolerance = DefaultDateTolerance
  /\ result = [ transfers |-> <<>>, duplicatesOfExisting |-> <<>>,
                remaining |-> <<>>, all |-> <<>> ]
  /\ mpc = "off"
  /\ ImportUnused
  /\ UnitsUnused("payments")

\* one call of convertCreditCardPayments
ConvertPayments ==
  /\ ppc = "input"
  /\ paymentResult' = convertCreditCardPayments(paymentTxs, paymentAccountsMap)
  /\ ppc' = "done"
  /\ UNCHANGED <<paymentTxs, paymentAccountsMap, matcherVars, importVars,
                 identityTx, identifyMethodMap, externalId, ipc, pages,
                 nextPage, fireFlyData, listResult, gpc, configResponse,
                 fireflyState, spc, allTxs, toDelete, scrapeUsers, parallel,
                 promises, settleOrder, actionResults, apc>>

SpecPayments == InitPayments /\ [][ConvertPayments]_vars

\* config autoDetectTransfers
AutoDetectTransfers == TRUE

applyTransferDetection(txs, existing) ==
  IF ~AutoDetectTransfers THEN txs
  ELSE detectAndConvertTransfers(txs, DefaultDateTolerance, existing).all

\* ------------------------------------------------------------------------
\* doImport : classification, deduplication and the plan
\* ------------------------------------------------------------------------
\* the calendar day of the earliest formatted transaction, or today's;
\* moment() is later than every scraped date
MinimalDay(txs) ==
  LET days == {txs[k].date \div DayParts : k \in DOMAIN txs}
                \cup {MaxDate \div DayParts}
  IN CHOOSE d \in days : \A e \in days : d <= e

\* the ledger's transfers dated after minimalDate - 3 days
SearchExistingTransfers(ledger, txs) ==
  LET found == SelectSeq(SearchTxs(ledger, MinimalDay(txs) - 3),
                         LAMBDA e : e.type = "transfer")
  IN [k \in DOMAIN found |->
        ExistingTransfer(found[k].id, found[k].date, found[k].amount,
                         found[k].source_id, found[k].destination_id,
                         found[k].external_id)]

\* as Dedup, keeping the last occurrence of an external_id
RECURSIVE Dedup_KeepLast(_, _, _)
Dedup_KeepLast(txs, i, seenExternalIds) ==
  IF i > Len(txs) THEN <<>>
  ELSE IF \E j \in (i + 1)..Len(txs) : txs[j].external_id = txs[i].external_id
    THEN Dedup_KeepLast(txs, i + 1, seenExternalIds)
    ELSE <<txs[i]>> \o Dedup_KeepLast(txs, i + 1, seenExternalIds)

\* transferDetectedTxs.filter with the seenExternalIds set
RECURSIVE Dedup(_, _, _)
Dedup(txs, i, seenExternalIds) ==
  IF i > Len(txs) THEN <<>>
  ELSE IF txs[i].external_id \in seenExternalIds
    THEN Dedup(txs, i + 1, seenExternalIds)
    ELSE <<txs[i]>> \o Dedup(txs, i + 1, seenExternalIds \cup {txs[i].external_id})

getExistsTxMap(fireflyData) ==
  LET usable == SelectSeq(fireflyData, LAMBDA e : e.external_id # "" /\ e.type # "")
      extIds == {usable[k].external_id : k \in DOMAIN usable}
      last(id) == CHOOSE k \in DOMAIN usable :
                    /\ usable[k].external_id = id
                    /\ \A j \in DOMAIN usable : usable[j].external_id = id => j <= k
  IN [id \in extIds |->
        [ id |-> usable[last(id)].id, type |-> usable[last(id)].type,
          source_id |-> usable[last(id)].source_id,
          destination_id |-> usable[last(id)].destination_id,
          description |-> usable[last(id)].description ]]

getMappedTransactions(ledger, txs) ==
  getExistsTxMap(SearchTxs(ledger, MinimalDay(txs) - 1))

toCreate == SelectSeq(deduplicatedTxs, LAMBDA x : x.external_id \notin DOMAIN currentTxMap)

toTypeUpdate ==
  SelectSeq(deduplicatedTxs, LAMBDA x :
    /\ x.external_id \in DOMAIN currentTxMap
    /\ currentTxMap[x.external_id].type # x.type)

toAddDestination ==
  SelectSeq(deduplicatedTxs, LAMBDA x :
    /\ x.external_id \in DOMAIN currentTxMap
    /\ currentTxMap[x.external_id].type = "withdrawal"
    /\ x.type = "withdrawal"
    /\ x.destination_id # ""
    /\ currentTxMap[x.external_id].destination_id = ""
    /\ x.source_id = currentTxMap[x.external_id].source_id)

\* toUpdate without the exclusion of the records of toAddDestination
toUpdate_WithDestinations ==
  SelectSeq(deduplicatedTxs, LAMBDA x :
    /\ x.external_id \in DOMAIN currentTxMap
    /\ currentTxMap[x.external_id].type = x.type)

toUpdate ==
  SelectSeq(deduplicatedTxs, LAMBDA x :
    /\ x.external_id \in DOMAIN currentTxMap
    /\ currentTxMap[x.external_id].type = x.type
    /\ ~\E k \in DOMAIN toAddDestination :
          toAddDestination[k].external_id = x.external_id)

\* ------------------------------------------------------------------------
\* The requests that can fail, with their outcomes
\* ------------------------------------------------------------------------
\* getOrCreateExpenseAccount(merchantName, dryRun): every way the call can end
getOrCreateExpenseAccount(merchantName, dry, cache, accounts, canFail) ==
  LET cachedId == CachedExpenseAccount(cache, merchantName)
      foundId  == FindExpenseAccount(accounts, merchantName)
      same     == [id |-> "", cache |-> cache, accounts |-> accounts,
                   writes |-> <<>>, failed |-> FALSE]
  IN IF cachedId # "" THEN {[same EXCEPT !.id = cachedId]}
     ELSE IF foundId # ""
       THEN {[same EXCEPT !.id = foundId, !.cache = Put(cache, merchantName, foundId)]}
     ELSE IF dry THEN {same}
     ELSE {[ id       |-> AccountId(merchantName),
             cache    |-> Put(cache, merchantName, AccountId(merchantName)),
             accounts |-> accounts \cup {LedgerAccount(merchantName, "", "expense")},
             writes   |-> <<Write("createAccount", "normalize", merchantName, TRUE)>>,
             failed   |-> FALSE ]}
          \cup (IF canFail
                  THEN {[same EXCEPT
                           !.writes = <<Write("createAccount", "normalize",
                                              merchantName, FALSE)>>,
                           !.failed = TRUE]}
                  ELSE {})

\* as innerCreateTx, without the catch: a failed request rejects the promise
innerCreateTx_Rethrow(tx, stage, ledger, nextId, canFail) ==
  {[ ledger |-> LedgerCreate(ledger, nextId, tx), nextId |-> nextId + 1,
     writes |-> <<Write("createTx", stage, tx.external_id, TRUE)>>,
     failed |-> FALSE, rejected |-> FALSE ]}
    \cup (IF canFail
            THEN {[ ledger |-> ledger, nextId |-> nextId,
                    writes |-> <<Write("createTx", stage, tx.external_id, FALSE)>>,
                    failed |-> TRUE, rejected |-> TRUE ]}
            ELSE {})

\* innerCreateTx: createTx inside try/catch, the promise always resolves
innerCreateTx(tx, stage, ledger, nextId, canFail) ==
  {[ ledger |-> LedgerCreate(ledger, nextId, tx), nextId |-> nextId + 1,
     writes |-> <<Write("createTx", stage, tx.external_id, TRUE)>>,
     failed |-> FALSE, rejected |-> FALSE ]}
    \cup (IF canFail
            THEN {[ ledger |-> ledger, nextId |-> nextId,
                    writes |-> <<Write("createTx", stage, tx.external_id, FALSE)>>,
                    failed |-> TRUE, rejected |-> FALSE ]}
            ELSE {})

\* innerUpdateTx sending the create whatever the delete answered
innerUpdateTx_CreateAnyway(existingTx, tx, stage, ledger, nextId, canFail) ==
  LET del(ok) == Write("deleteTx", stage, tx.external_id, ok)
      cre(ok) == Write("createTx", stage, tx.external_id, ok)
      upd(ok) == Write("updateTx", stage, tx.external_id, ok)
      out(l, n, w, f) == [ledger |-> l, nextId |-> n, writes |-> w,
                          failed |-> f, rejected |-> FALSE]
  IN IF existingTx.type # tx.type
       THEN {out(LedgerCreate(LedgerDelete(ledger, existingTx.id), nextId, tx),
                 nextId + 1, <<del(TRUE), cre(TRUE)>>, FALSE)}
              \cup (IF canFail
                      THEN {out(LedgerCreate(ledger, nextId, tx), nextId + 1,
                                <<del(FALSE), cre(TRUE)>>, TRUE)}
                      ELSE {})
       ELSE {out(LedgerUpdate(ledger, existingTx.id, tx), nextId, <<upd(TRUE)>>, FALSE)}
              \cup (IF canFail
                      THEN {out(ledger, nextId, <<upd(FALSE)>>, TRUE)}
                      ELSE {})

\* innerUpdateTx: delete then create when the type changed, else update in place
innerUpdateTx(existingTx, tx, stage, ledger, nextId, canFail) ==
  LET del(ok) == Write("deleteTx", stage, tx.external_id, ok)
      cre(ok) == Write("createTx", stage, tx.external_id, ok)
      upd(ok) == Write("updateTx", stage, tx.external_id, ok)
      out(l, n, w, f) == [ledger |-> l, nextId |-> n, writes |-> w,
                          failed |-> f, rejected |-> FALSE]
  IN IF existingTx.type # tx.type
       THEN {out(LedgerCreate(LedgerDelete(ledger, existingTx.id), nextId, tx),
                 nextId + 1, <<del(TRUE), cre(TRUE)>>, FALSE)}
              \cup (IF canFail
                      THEN {out(ledger, nextId, <<del(FALSE)>>, TRUE),
                            out(LedgerDelete(ledger, existingTx.id), nextId,
                                <<del(TRUE), cre(FALSE)>>, TRUE)}
                      ELSE {})
       ELSE {out(LedgerUpdate(ledger, existingTx.id, tx), nextId, <<upd(TRUE)>>, FALSE)}
              \cup (IF canFail
                      THEN {out(ledger, nextId, <<upd(FALSE)>>, TRUE)}
                      ELSE {})

\* getStateWithLastImport: every successfully scraped user is stamped with now
getStateWithLastImport(users, lastState, now) ==
  LET keys == {getAccountIdentification(users[k]) : k \in DOMAIN users}
  IN [k \in DOMAIN lastState \cup keys |-> IF k \in keys THEN now ELSE lastState[k]]

\* ------------------------------------------------------------------------
\* The import, step by step
\* ------------------------------------------------------------------------
\* the matcher's variables while the importer runs
MatcherUnused ==
  /\ transactions = <<>>
  /\ existingTransfers = <<>>
  /\ dateTolerance = DefaultDateTolerance
  /\ result = NoResult
  /\ mpc = "off"

Init ==
  /\ MatcherUnused
  /\ UnitsUnused("")
  /\ args \in SUBSET {"--dry-run", "--skip-edit"}
  \* --since: none, a date, a word that is no date
  /\ since \in {"", "2024-01-01", "soon"}
  /\ pc = "off"
  /\ run = 0
  \* accounts.flatMap(a => a.txns): the bank's transactions come first; one
  \* longer snapshot, of a card settlement, a rent payment and a refund on
  \* the card whose identifier is the settlement's
  /\ scraped \in
       {sq \in SeqsUpTo(RawTxs, MaxScraped) :
          \A i, j \in DOMAIN sq :
            (i < j) => ~(sq[i].account = CardNumber /\ sq[j].account = BankNumber)}
       \cup {<<Raw(BankNumber, 0 - DepositAmount, "visa", "x"),
               Raw(BankNumber, 0 - DepositAmount, "rent", "y"),
               Raw(CardNumber, DepositAmount, "payment", "x")>>}
  /\ scrapResult = <<>>
  /\ \E l \in InitialLedgers :
       /\ ledgerAccounts = l.accounts
       /\ ledgerTxs = l.txs
       /\ nextTxId = Len(l.txs) + 1
       /\ hist = [NoHist EXCEPT !.ledgerWasEmpty = (l.accounts = {} /\ l.txs = <<>>)]
  /\ ledgerConfig = EmptyMap
  /\ expenseAccountCache = EmptyMap
  /\ getTxsByTagCache = EmptyMap
  /\ LocalsUnset
  /\ failures = 0

\* doImport up to the scrape: the state is read, the sources are scraped
BeginRun ==
  /\ run < MaxRuns
  /\ run' = run + 1
  /\ pc' = "accounts"
  /\ state' = ledgerConfig
  /\ accountsMaps' = EmptyMap
  /\ scrapeFormattedTxs' = <<>>
  /\ preparedFireTxs' = <<>>
  /\ transferDetectedTxs' = <<>>
  /\ deduplicatedTxs' = <<>>
  /\ currentTxMap' = EmptyMap
  /\ idx' = 1
  /\ writes' = <<>>
  /\ hist' = [hist EXCEPT
                !.prevClean = (pc = "done" /\ failures = 0),
                !.failedCreates =
                   {writes[i].key :
                      i \in {j \in DOMAIN writes :
                               writes[j].op = "createTx" /\ ~writes[j].ok}}]
  /\ \E results \in ScrapeResults(StartDates(ledgerConfig, since)) :
       LET failed == Cardinality({k \in DOMAIN results : ~results[k].success})
       IN /\ failures + failed <= MaxFailures
          /\ scrapResult' = results
          /\ failures' = failures + failed
  /\ UNCHANGED <<matcherVars, unitVars, args, since, scraped, ledgerAccounts,
                 ledgerTxs, nextTxId, ledgerConfig>>

\* the program is started: the modules are loaded, their caches are new
ProcessStart ==
  /\ pc \in {"off", "done", "fatal"}
  /\ expenseAccountCache' = EmptyMap
  /\ getTxsByTagCache' = EmptyMap
  /\ BeginRun

\* the scheduler calls run(cliOptions) again in the running process
\* (config.get('cron') is set in the modelled deployment)
CronTick ==
  /\ ~dryRun
  /\ pc = "done"
  /\ UNCHANGED <<expenseAccountCache, getTxsByTagCache>>
  /\ BeginRun

\* createAndMapAccounts: the missing accounts are created one after another;
\* the first failing request ends the run
CreateAndMapAccounts ==
  /\ pc = "accounts"
  /\ LET existing == ExistingAccountsMap(ledgerAccounts)
         missed   == missedAccounts(existing)
         req(k, ok) == Write("createAccount", "accounts", missed[k], ok)
     IN \E f \in 0..Len(missed) :
          /\ (f > 0) => failures < MaxFailures
          /\ LET n == IF f = 0 THEN Len(missed) ELSE f - 1
             IN /\ ledgerAccounts' = ledgerAccounts \cup
                     {LedgerAccount(missed[k], missed[k], "asset") : k \in 1..n}
                /\ writes' = writes \o [k \in 1..n |-> req(k, TRUE)]
                               \o (IF f = 0 THEN <<>> ELSE <<req(f, FALSE)>>)
                /\ accountsMaps' = IF f = 0 THEN WithCreated(existing, missed, n)
                                            ELSE accountsMaps
                /\ pc' = IF f = 0 THEN "normalize" ELSE "fatal"
                /\ failures' = IF f = 0 THEN failures ELSE failures + 1
  /\ UNCHANGED <<matcherVars, unitVars, scrapResult, args, since, run, scraped, ledgerTxs, nextTxId, ledgerConfig,
                 expenseAccountCache, getTxsByTagCache, state, scrapeFormattedTxs,
                 preparedFireTxs, transferDetectedTxs, deduplicatedTxs,
                 currentTxMap, idx, hist>>

\* one step of the reduce that formats the scraped transactions
NormalizeTx ==
  /\ pc = "normalize"
  /\ idx <= Len(FlatTxs(scraped, accountsMaps))
  /\ LET x       == FlatTxs(scraped, accountsMaps)[idx]
         account == accountsMaps[x.account]
         plain   == [id |-> IF x.chargedAmount > 0 THEN account.id ELSE "",
                     cache |-> expenseAccountCache, accounts |-> ledgerAccounts,
                     writes |-> <<>>, failed |-> FALSE]
         outcomes == IF NeedsExpenseAccount(x, account)
                       THEN getOrCreateExpenseAccount(x.description, dryRun,
                              expenseAccountCache, ledgerAccounts,
                              failures < MaxFailures)
                       ELSE {plain}
     IN \E o \in outcomes :
          /\ scrapeFormattedTxs' = Append(scrapeFormattedTxs, FormatTx(x, account, o.id))
          /\ expenseAccountCache' = o.cache
          /\ ledgerAccounts' = o.accounts
          /\ writes' = writes \o o.writes
          /\ failures' = IF o.failed THEN failures + 1 ELSE failures
  /\ idx' = idx + 1
  /\ UNCHANGED <<matcherVars, unitVars, scrapResult, args, since, pc, run, scraped, ledgerTxs, nextTxId,
                 ledgerConfig, getTxsByTagCache, state, accountsMaps,
                 preparedFireTxs, transferDetectedTxs, deduplicatedTxs,
                 currentTxMap, hist>>

\* manipulateTxs: the billing-cycle pass over the formatted transactions; a
\* tag request the ledger answers with an error (other than 404) rejects the
\* pass, and doImport with it
Manipulate ==
  /\ pc = "normalize"
  /\ idx > Len(FlatTxs(scraped, accountsMaps))
  /\ LET m == manipulateTxs(scrapeFormattedTxs, accountsMaps, getTxsByTagCache,
                            ledgerTxs)
     IN \/ /\ preparedFireTxs' = m.txs
           /\ getTxsByTagCache' = m.cache
           /\ pc' = "classify"
           /\ UNCHANGED failures
           /\ UNCHANGED writes
        \/ /\ failures < MaxFailures
           /\ \E tag \in DOMAIN m.cache \ DOMAIN getTxsByTagCache :
                writes' = Append(writes, Write("getTxsByTag", "manipulate",
                                               tag, FALSE))
           /\ failures' = failures + 1
           /\ pc' = "fatal"
           /\ UNCHANGED <<preparedFireTxs, getTxsByTagCache>>
  /\ UNCHANGED <<matcherVars, unitVars, scrapResult, args, since, run, scraped,
                 ledgerAccounts, ledgerTxs, nextTxId, ledgerConfig,
                 expenseAccountCache, state, accountsMaps, scrapeFormattedTxs,
                 transferDetectedTxs, deduplicatedTxs, currentTxMap, idx,
                 hist>>

\* the reference pass, the pair matcher, deduplication and the ledger snapshot
Classify ==
  /\ pc = "classify"
  /\ LET ccPaymentResult == convertCreditCardPayments(preparedFireTxs, accountsMaps)
         existing == SearchExistingTransfers(ledgerTxs, scrapeFormattedTxs)
         transferDetectedResult ==
           applyTransferDetection(ccPaymentResult.remaining, existing)
         detected == ccPaymentResult.transfers \o transferDetectedResult
     IN /\ transferDetectedTxs' = detected
        /\ deduplicatedTxs' = Dedup(detected, 1, {})
  /\ currentTxMap' = getMappedTransactions(ledgerTxs, scrapeFormattedTxs)
  /\ pc' = "create"
  /\ idx' = 1
  /\ UNCHANGED <<matcherVars, unitVars, scrapResult, args, since, run, scraped, ledgerAccounts, ledgerTxs, nextTxId,
                 ledgerConfig, expenseAccountCache, getTxsByTagCache, state,
                 accountsMaps, scrapeFormattedTxs, preparedFireTxs, writes,
                 failures, hist>>

\* the write stages of doImport, in the order the code runs them
Stages == <<"create", "typeUpdate", "addDestination", "update">>

StageList(stage) ==
  CASE stage = "create"         -> toCreate
    [] stage = "typeUpdate"     -> toTypeUpdate
    [] stage = "addDestination" -> toAddDestination
    [] stage = "update"         -> toUpdate

\* a stage's list is walked unless the run is dry; the last stage also
\* needs options.skipEdit to be false
StageWrites(stage) == ~dryRun /\ (stage = "update" => ~skipEdit)

\* the stages with the field updates moved before the type updates
NextStage_FieldUpdatesEarly(stage) ==
  CASE stage = "create"         -> "update"
    [] stage = "update"         -> "typeUpdate"
    [] stage = "typeUpdate"     -> "addDestination"
    [] stage = "addDestination" -> "finish"

\* the stage doImport runs after the given one
NextStage(stage) ==
  CASE stage = "create"         -> "typeUpdate"
    [] stage = "typeUpdate"     -> "addDestination"
    [] stage = "addDestination" -> "update"
    [] stage = "update"         -> "finish"

\* the effect of one item's write on the ledger and on the promise chain
ApplyWrite(outcomes) ==
  \E o \in outcomes :
    /\ ledgerTxs' = o.ledger
    /\ nextTxId' = o.nextId
    /\ writes' = writes \o o.writes
    /\ failures' = IF o.failed THEN failures + 1 ELSE failures
    /\ pc' = IF o.rejected THEN "fatal" ELSE pc
    /\ idx' = idx + 1
    /\ UNCHANGED <<matcherVars, unitVars, scrapResult, args, since, run, scraped, ledgerAccounts, ledgerConfig,
                   expenseAccountCache, getTxsByTagCache, state, accountsMaps,
                   scrapeFormattedTxs, preparedFireTxs, transferDetectedTxs,
                   deduplicatedTxs, currentTxMap, hist>>

\* toCreate.reduce: innerCreateTx for the next item
CreateTx ==
  /\ pc = "create"
  /\ StageWrites(pc)
  /\ idx <= Len(toCreate)
  /\ ApplyWrite(innerCreateTx(toCreate[idx], pc, ledgerTxs, nextTxId,
                              failures < MaxFailures))

\* toTypeUpdate.reduce: innerUpdateTx for the next item
TypeUpdateTx ==
  /\ pc = "typeUpdate"
  /\ StageWrites(pc)
  /\ idx <= Len(toTypeUpdate)
  /\ ApplyWrite(innerUpdateTx(currentTxMap[toTypeUpdate[idx].external_id],
                              toTypeUpdate[idx], pc, ledgerTxs, nextTxId,
                              failures < MaxFailures))

\* toAddDestination.reduce: innerUpdateTx for the next item
AddDestinationTx ==
  /\ pc = "addDestination"
  /\ StageWrites(pc)
  /\ idx <= Len(toAddDestination)
  /\ ApplyWrite(innerUpdateTx(currentTxMap[toAddDestination[idx].external_id],
                              toAddDestination[idx], pc, ledgerTxs, nextTxId,
                              failures < MaxFailures))

\* toUpdate.reduce: innerUpdateTx for the next item
UpdateTx ==
  /\ pc = "update"
  /\ StageWrites(pc)
  /\ idx <= Len(toUpdate)
  /\ ApplyWrite(innerUpdateTx(currentTxMap[toUpdate[idx].external_id],
                              toUpdate[idx], pc, ledgerTxs, nextTxId,
                              failures < MaxFailures))

\* a stage's list is exhausted, or the stage does not write: on to the next
StageDone ==
  /\ pc \in {Stages[k] : k \in DOMAIN Stages}
  /\ ~StageWrites(pc) \/ idx > Len(StageList(pc))
  /\ pc' = NextStage(pc)
  /\ idx' = 1
  /\ UNCHANGED <<matcherVars, unitVars, scrapResult, args, since, run, scraped, ledgerAccounts, ledgerTxs, nextTxId,
                 ledgerConfig, expenseAccountCache, getTxsByTagCache, state,
                 accountsMaps, scrapeFormattedTxs, preparedFireTxs,
                 transferDetectedTxs, deduplicatedTxs, currentTxMap, writes,
                 failures, hist>>

\* the balance check, then the last-import state is saved unless the run is dry
Finish ==
  /\ pc = "finish"
  /\ \/ /\ dryRun
        /\ pc' = "done"
        /\ UNCHANGED <<ledgerConfig, writes, failures>>
     \/ /\ ~dryRun
        /\ ledgerConfig' = getStateWithLastImport(getSuccessfulScrappedUsers(scrapResult), state, run)
        /\ writes' = Append(writes, Write("upsertConfig", "finish",
                                          "israeli-bank-importer", TRUE))
        /\ pc' = "done"
        /\ UNCHANGED failures
     \/ /\ ~dryRun
        /\ failures < MaxFailures
        /\ writes' = Append(writes, Write("upsertConfig", "finish",
                                          "israeli-bank-importer", FALSE))
        /\ failures' = failures + 1
        /\ pc' = "fatal"
        /\ UNCHANGED ledgerConfig
  /\ UNCHANGED <<matcherVars, unitVars, scrapResult, args, since, run, scraped, ledgerAccounts, ledgerTxs, nextTxId,
                 expenseAccountCache, getTxsByTagCache, state, accountsMaps,
                 scrapeFormattedTxs, preparedFireTxs, transferDetectedTxs,
                 deduplicatedTxs, currentTxMap, idx, hist>>

Next ==
  \/ ProcessStart
  \/ CronTick
  \/ CreateAndMapAccounts
  \/ NormalizeTx
  \/ Manipulate
  \/ Classify
  \/ CreateTx
  \/ TypeUpdateTx
  \/ AddDestinationTx
  \/ UpdateTx
  \/ StageDone
  \/ Finish

Spec == Init /\ [][Next]_vars

\* ------------------------------------------------------------------------
\* removeDuplicatesFromFirefly (--remove-duplicates)
\* ------------------------------------------------------------------------
\* a ledger transaction as the mode reads it; external ids that are not
\* integer-like keep their insertion order in Object.entries
StoredTx(extId, date) ==
  [ id |-> 0, type |-> "withdrawal", external_id |-> extId, date |-> date,
    amount |-> DepositAmount, source_id |-> AccountId(BankNumber),
    destination_id |-> "", description |-> "rent", tags |-> <<>> ]

\* Object.entries(transactionsByExternalId): the ids in first-seen order
GroupKeys(data) ==
  LET withId == SelectSeq(data, LAMBDA tx : tx.external_id # "")
      firsts == {k \in DOMAIN withId :
                   \A j \in 1..(k - 1) : withId[j].external_id # withId[k].external_id}
  IN [n \in 1..Cardinality(firsts) |->
        withId[CHOOSE k \in firsts :
                 Cardinality({j \in firsts : j <= k}) = n].external_id]

\* the group is left in the order read
SortGroup_Unsorted(txs) == txs

\* txs.sort by date: stable, the earliest first
SortGroup(txs) == SortByDate(txs)

RECURSIVE CollectDuplicates(_, _, _)
\* toDelete.push(...duplicates) for the first n groups: a group is
\* transactionsByExternalId[externalId] in the order read, its duplicates are
\* sorted.slice(1) when it has more than one transaction
CollectDuplicates(data, keys, n) ==
  IF n = 0 THEN <<>>
  ELSE LET txs == SelectSeq(data, LAMBDA tx : tx.external_id = keys[n])
       IN CollectDuplicates(data, keys, n - 1)
            \o (IF Len(txs) > 1 THEN Tail(SortGroup(txs)) ELSE <<>>)

\* the mode is run on a ledger whose k-th transaction has id k
InitDuplicates ==
  /\ MatcherUnused
  /\ UnitsUnused("")
  /\ args = {"--remove-duplicates"}
  /\ since = ""
  /\ pc = "removeDuplicates"
  /\ run = 0
  /\ scraped = <<>>
  /\ scrapResult = <<>>
  /\ ledgerAccounts = AssetAccounts
  /\ ledgerTxs \in
       {[k \in DOMAIN sq |-> [sq[k] EXCEPT !.id = k]] :
          sq \in SeqsUpTo({StoredTx(e, d) : e \in {"x", "y", ""},
                                            d \in {0, 1, MidDate}},
                          MaxLedgerTxs)}
  /\ nextTxId = Len(ledgerTxs) + 1
  /\ ledgerConfig = EmptyMap
  /\ expenseAccountCache = EmptyMap
  /\ getTxsByTagCache = EmptyMap
  /\ LocalsUnset
  /\ failures = 0
  /\ hist = NoHist

\* getAllTxs, the grouping and the list of duplicates
FindDuplicates ==
  /\ pc = "removeDuplicates"
  /\ allTxs' = ledgerTxs
  /\ LET keys == GroupKeys(ledgerTxs)
         list == CollectDuplicates(ledgerTxs, keys, Len(keys))
     IN /\ toDelete' = list
        /\ pc' = IF list = <<>> THEN "done" ELSE "delete"
  /\ idx' = 1
  /\ UNCHANGED <<matcherVars, paymentTxs, paymentAccountsMap, paymentResult,
                 ppc, identityTx, identifyMethodMap, externalId, ipc, pages,
                 nextPage, fireFlyData, listResult, gpc, configResponse,
                 fireflyState, spc, args, since, run, scraped, scrapResult,
                 ledgerAccounts, ledgerTxs, nextTxId, ledgerConfig,
                 expenseAccountCache, getTxsByTagCache, state, accountsMaps,
                 scrapeFormattedTxs, preparedFireTxs, transferDetectedTxs,
                 deduplicatedTxs, currentTxMap, writes, failures, hist,
                 scrapeUsers, parallel, promises, settleOrder, actionResults,
                 apc>>

\* toDelete.reduce: deleteTx of the next item; a failed request rejects the
\* chain and ends the run
DeleteDuplicate ==
  /\ pc = "delete"
  /\ idx <= Len(toDelete)
  /\ \/ /\ ledgerTxs' = LedgerDelete(ledgerTxs, toDelete[idx].id)
        /\ writes' = Append(writes, Write("deleteTx", "removeDuplicates",
                                          toDelete[idx].external_id, TRUE))
        /\ idx' = idx + 1
        /\ UNCHANGED <<pc, failures>>
     \/ /\ failures < MaxFailures
        /\ writes' = Append(writes, Write("deleteTx", "removeDuplicates",
                                          toDelete[idx].external_id, FALSE))
        /\ failures' = failures + 1
        /\ pc' = "fatal"
        /\ UNCHANGED <<ledgerTxs, idx>>
  /\ UNCHANGED <<matcherVars, unitVars, args, since, run, scraped, scrapResult,
                 ledgerAccounts, nextTxId, ledgerConfig, expenseAccountCache,
                 getTxsByTagCache, state, accountsMaps, scrapeFormattedTxs,
                 preparedFireTxs, transferDetectedTxs, deduplicatedTxs,
                 currentTxMap, hist>>

\* every duplicate was deleted: the mode returns
DuplicatesRemoved ==
  /\ pc = "delete"
  /\ idx > Len(toDelete)
  /\ pc' = "done"
  /\ UNCHANGED <<matcherVars, unitVars, args, since, run, scraped, scrapResult,
                 ledgerAccounts, ledgerTxs, nextTxId, ledgerConfig,
                 expenseAccountCache, getTxsByTagCache, state, accountsMaps,
                 scrapeFormattedTxs, preparedFireTxs, transferDetectedTxs,
                 deduplicatedTxs, currentTxMap, idx, writes, failures, hist>>

SpecDuplicates ==
  InitDuplicates /\ [][FindDuplicates \/ DeleteDuplicate \/ DuplicatesRemoved]_vars

\* ------------------------------------------------------------------------
\* credit-cards.ts : manipulateTxs on its own
\* ------------------------------------------------------------------------
\* the pass is given formatted transactions of the bank account, with a
\* description of config creditCardDesc or another and with or without a
\* process date, the accounts map of any subset of the accounts, and a ledger
\* of transactions that carry a billing tag of a card
InitBilling ==
  /\ MatcherUnused
  /\ UnitsUnused("")
  /\ args = {}
  /\ since = ""
  /\ pc = "normalize"
  /\ run = 1
  /\ scraped = <<>>
  /\ scrapResult = <<>>
  /\ ledgerAccounts = AssetAccounts
  /\ ledgerTxs \in
       {[k \in DOMAIN sq |-> [sq[k] EXCEPT !.id = k]] :
          sq \in SeqsUpTo({[StoredTx("", 0) EXCEPT !.type = t, !.tags = <<tag>>] :
                             t \in {"deposit", "withdrawal"},
                             tag \in {AccountId(CardNumber) \o "_p1",
                                      AccountId(TwinCardNumber) \o "_p1",
                                      AccountId(CardNumber) \o "_" \o PrevDay("p1")}},
                          MaxLedgerTxs)}
  /\ nextTxId = Len(ledgerTxs) + 1
  /\ ledgerConfig = EmptyMap
  /\ expenseAccountCache = EmptyMap
  /\ getTxsByTagCache = EmptyMap
  /\ state = EmptyMap
  /\ accountsMaps \in
       {[n \in S |-> PaymentAccounts[n]] : S \in SUBSET DOMAIN PaymentAccounts}
  /\ scrapeFormattedTxs \in
       {<<[PaymentTx(t, BankNumber, "", "x") EXCEPT
             !.description = d, !.process_date = p]>> :
          t \in {"withdrawal", "deposit", "transfer"},
          d \in {"visa", "rent"}, p \in {"", "p1"}}
  /\ preparedFireTxs = <<>>
  /\ transferDetectedTxs = <<>>
  /\ deduplicatedTxs = <<>>
  /\ currentTxMap = EmptyMap
  /\ idx = 1
  /\ writes = <<>>
  /\ failures = 0
  /\ hist = NoHist

SpecBilling == InitBilling /\ [][Manipulate]_vars

\* ------------------------------------------------------------------------
\* firefly.ts : paginate, and getFireflyState, on their own
\* ------------------------------------------------------------------------
\* a page the ledger answers: its HTTP status and, when 200, its data; the
\* next link of a page leads to the following page, the last page's is null
Page(status, data) == [status |-> status, data |-> data]

\* every error answer is thrown again
PageOutcome_404Throws(status) ==
  IF status = 200 THEN "push" ELSE "throw"

\* what paginate does with the answer to one request: the data is pushed,
\* a 404 ends the read with an empty list, another error is thrown again
PageOutcome(status) ==
  IF status = 200 THEN "push"
  ELSE IF status = 404 THEN "empty"
  ELSE "throw"

\* JSON.parse of the persisted blob
JsonParse(str) ==
  IF str = "{}" THEN EmptyMap
  ELSE [lastImport |-> [leumi_u1 |-> 1]]

InitReads ==
  /\ pages \in
       SeqsUpTo({Page(200, d) : d \in SeqsUpTo({"a", "b"}, 2)}
                  \cup {Page(404, <<>>), Page(500, <<>>)}, MaxPages) \ {<<>>}
  /\ nextPage = 1
  /\ fireFlyData = <<>>
  /\ listResult = <<>>
  /\ gpc = "loop"
  /\ configResponse \in
       { [status |-> 200, data |-> "{}"],
         [status |-> 200, data |-> "{\"lastImport\":{\"leumi_u1\":1}}"],
         [status |-> 404, data |-> ""],
         [status |-> 500, data |-> ""] }
  /\ fireflyState = EmptyMap
  /\ spc = "input"
  /\ MatcherUnused
  /\ ImportUnused
  /\ UnitsUnused("reads")

\* paginate: one turn of the while loop
FetchPage ==
  /\ gpc = "loop"
  /\ nextPage # 0
  /\ LET res     == pages[nextPage]
         outcome == PageOutcome(res.status)
     IN /\ fireFlyData' = IF outcome = "push" THEN fireFlyData \o res.data
                                              ELSE fireFlyData
        /\ nextPage' = IF outcome = "push"
                         THEN (IF nextPage < Len(pages) THEN nextPage + 1 ELSE 0)
                         ELSE nextPage
        /\ gpc' = CASE outcome = "push"  -> "loop"
                    [] outcome = "empty" -> "returned"
                    [] outcome = "throw" -> "threw"
        /\ listResult' = <<>>
  /\ UNCHANGED <<pages, configResponse, fireflyState, spc>>
  /\ UNCHANGED <<matcherVars, importVars, paymentTxs, paymentAccountsMap,
                 paymentResult, ppc, identityTx, identifyMethodMap,
                 externalId, ipc, allTxs, toDelete, scrapeUsers, parallel,
                 promises, settleOrder, actionResults, apc>>

\* paginate: the cursor is null, the accumulated list is returned
ReturnPages ==
  /\ gpc = "loop"
  /\ nextPage = 0
  /\ listResult' = fireFlyData
  /\ gpc' = "returned"
  /\ UNCHANGED <<pages, nextPage, fireFlyData, configResponse, fireflyState, spc>>
  /\ UNCHANGED <<matcherVars, importVars, paymentTxs, paymentAccountsMap,
                 paymentResult, ppc, identityTx, identifyMethodMap,
                 externalId, ipc, allTxs, toDelete, scrapeUsers, parallel,
                 promises, settleOrder, actionResults, apc>>

\* getFireflyState: the parsed blob, {} on 404, any other error thrown again
GetFireflyState ==
  /\ spc = "input"
  /\ fireflyState' = IF configResponse.status = 200
                        THEN JsonParse(configResponse.data) ELSE EmptyMap
  /\ spc' = IF configResponse.status \in {200, 404} THEN "returned" ELSE "threw"
  /\ UNCHANGED <<pages, nextPage, fireFlyData, listResult, gpc, configResponse>>
  /\ UNCHANGED <<matcherVars, importVars, paymentTxs, paymentAccountsMap,
                 paymentResult, ppc, identityTx, identifyMethodMap,
                 externalId, ipc, allTxs, toDelete, scrapeUsers, parallel,
                 promises, settleOrder, actionResults, apc>>

SpecReads == InitReads /\ [][FetchPage \/ ReturnPages \/ GetFireflyState]_vars

\* ------------------------------------------------------------------------
\* scrapeAccounts on its own: the actions and runActions
\* ------------------------------------------------------------------------
\* Promise.all: the values of the promises, by the index of the promise
PromiseAll_InCompletionOrder(list) ==
  [k \in DOMAIN list |-> list[settleOrder[k]].value]

PromiseAll(list) == [k \in DOMAIN list |-> list[k].value]

\* scrapeAccounts is called with the configured users
InitAcquisition ==
  /\ scrapeUsers \in {[k \in 1..n |-> [credentials |-> k]] : n \in 0..MaxUsers}
  /\ parallel \in BOOLEAN
  /\ promises = [k \in DOMAIN scrapeUsers |-> [status |-> "idle", value |-> EmptyMap]]
  /\ settleOrder = <<>>
  /\ actionResults = <<>>
  /\ apc = "input"
  /\ MatcherUnused
  /\ ImportUnused
  /\ UnitsUnused("acquisition")

\* runActions calls the actions: all of them at once when parallel, else the
\* next one of the reduce chain, once the results before it are gathered
StartScrape ==
  /\ apc \in {"input", "running"}
  /\ \E k \in DOMAIN promises :
       /\ promises[k].status = "idle"
       /\ ~parallel => Len(actionResults) = k - 1
       /\ promises' =
            [j \in DOMAIN promises |->
               IF parallel \/ j = k
               THEN [status |-> "pending", value |-> EmptyMap]
               ELSE promises[j]]
  /\ apc' = "running"
  /\ UNCHANGED <<scrapeUsers, parallel, settleOrder, actionResults>>
  /\ UNCHANGED <<matcherVars, importVars, paymentTxs, paymentAccountsMap,
                 paymentResult, ppc, identityTx, identifyMethodMap,
                 externalId, ipc, pages, nextPage, fireFlyData, listResult,
                 gpc, configResponse, fireflyState, spc, allTxs, toDelete>>

\* a scrape finishes; in the reduce chain its result is appended to the
\* results gathered so far
FinishScrape ==
  /\ apc = "running"
  /\ \E k \in DOMAIN promises :
       /\ promises[k].status = "pending"
       \* the scraper's result or the GENERAL_ERROR result of scrape's catch
       /\ \E outcome \in {[credentials |-> scrapeUsers[k].credentials,
                            success |-> ok] : ok \in BOOLEAN} :
            /\ promises' = [promises EXCEPT
                             ![k] = [status |-> "fulfilled", value |-> outcome]]
            /\ actionResults' = IF parallel THEN actionResults
                                ELSE Append(actionResults, outcome)
       /\ settleOrder' = Append(settleOrder, k)
  /\ UNCHANGED <<scrapeUsers, parallel, apc>>
  /\ UNCHANGED <<matcherVars, importVars, paymentTxs, paymentAccountsMap,
                 paymentResult, ppc, identityTx, identifyMethodMap,
                 externalId, ipc, pages, nextPage, fireFlyData, listResult,
                 gpc, configResponse, fireflyState, spc, allTxs, toDelete>>

\* every promise is fulfilled: runActions resolves, scrapeAccounts returns
ReturnResults ==
  /\ apc \in {"input", "running"}
  /\ \A k \in DOMAIN promises : promises[k].status = "fulfilled"
  /\ actionResults' = IF parallel THEN PromiseAll(promises) ELSE actionResults
  /\ apc' = "returned"
  /\ UNCHANGED <<scrapeUsers, parallel, promises, settleOrder>>
  /\ UNCHANGED <<matcherVars, importVars, paymentTxs, paymentAccountsMap,
                 paymentResult, ppc, identityTx, identifyMethodMap,
                 externalId, ipc, pages, nextPage, fireFlyData, listResult,
                 gpc, configResponse, fireflyState, spc, allTxs, toDelete>>

SpecAcquisition ==
  InitAcquisition /\ [][StartScrape \/ FinishScrape \/ ReturnResults]_vars

\* ------------------------------------------------------------------------
\* backfillTransfers (--backfill-transfers)
\* ------------------------------------------------------------------------
\* a ledger transaction as the mode formats it: the fields of
\* attributes.transactions[0] and the ledger's id
WithId(tx, id) ==
  [f \in DOMAIN tx \cup {"id"} |-> IF f = "id" THEN id ELSE tx[f]]

\* the mode is run on a ledger whose k-th transaction has id k: withdrawals
\* of the bank account and deposits on a second account whose identifiers
\* are unique within an account only, a transfer between the two, a card
\* settlement with the card's reference; one longer ledger of two pairs
InitBackfill ==
  /\ UnitsUnused("payments")
  /\ mpc = "off"
  /\ args \in {{"--backfill-transfers"}, {"--backfill-transfers", "--dry-run"}}
  /\ since \in {"", "2024-01-01", "soon"}
  /\ pc = "backfill"
  /\ run = 0
  /\ scraped = <<>>
  /\ scrapResult = <<>>
  /\ ledgerAccounts =
       {[ id |-> n, account_number |-> n, name |-> n, type |-> "asset",
          account_role |-> "defaultAsset" ] : n \in {"A", "B"}}
       \cup {[ id |-> AccountId(CardNumber), account_number |-> CardNumber,
               name |-> "visaCal", type |-> "asset", account_role |-> "ccAsset" ]}
  /\ ledgerTxs \in
       {[k \in DOMAIN sq |-> WithId(sq[k], k)] :
          sq \in SeqsUpTo({Tx("withdrawal", "A", "", 0, DepositAmount, e) :
                              e \in {"x", "y"}}
                          \cup {Tx("deposit", "", "B", 0, DepositAmount, e) :
                                  e \in {"x", "y"}}
                          \cup {Tx("transfer", "A", "B", 0, DepositAmount, "t"),
                                [Tx("withdrawal", "A", "", 0, DepositAmount, "z")
                                   EXCEPT !.internal_reference = CardLast4]},
                          MaxLedgerTxs)
                \cup {<<Tx("withdrawal", "A", "", 0, DepositAmount, "w"),
                        Tx("deposit", "", "B", 0, DepositAmount, "x"),
                        Tx("withdrawal", "A", "", 0, DepositAmount, "y"),
                        Tx("deposit", "", "B", 0, DepositAmount, "z")>>}}
  /\ nextTxId = Len(ledgerTxs) + 1
  /\ ledgerConfig = EmptyMap
  /\ expenseAccountCache = EmptyMap
  /\ getTxsByTagCache = EmptyMap
  /\ LocalsUnset
  /\ failures = 0
  /\ hist = NoHist
  /\ paymentTxs = <<>>
  /\ paymentAccountsMap = EmptyMap
  /\ paymentResult = [transfers |-> <<>>, remaining |-> <<>>, all |-> <<>>]
  /\ ppc = "off"
  /\ transactions = <<>>
  /\ existingTransfers = <<>>
  /\ dateTolerance = DefaultDateTolerance
  /\ result = NoResult

\* the accounts and the transactions are read, the transactions since the
\* date are formatted, the two passes are run on the deposits and
\* withdrawals; a dry run, or a run that found nothing, returns here
BackfillRead ==
  /\ pc = "backfill"
  /\ \/ /\ failures < MaxFailures
        /\ \E op \in {"getAccounts", "getAllTxs"} :
             writes' = Append(writes, Write(op, "read", "", FALSE))
        /\ failures' = failures + 1
        /\ pc' = "fatal"
        /\ UNCHANGED <<matcherVars, paymentTxs, paymentAccountsMap, paymentResult>>
     \/ /\ since # ""
        /\ Moment(since) = InvalidDate
        /\ pc' = "fatal"
        /\ UNCHANGED <<matcherVars, paymentTxs, paymentAccountsMap,
                       paymentResult, writes, failures>>
     \/ /\ since # "" => Moment(since) # InvalidDate
        /\ LET accountsMap ==
                 [n \in {a.account_number : a \in ledgerAccounts} |->
                    LET account == CHOOSE a \in ledgerAccounts : a.account_number = n
                    IN [ id   |-> account.id,
                         type |-> account.name,
                         kind |-> IF account.type = "asset"
                                       /\ account.account_role = "ccAsset"
                                    THEN "credit-card" ELSE account.type ]]
               transactionsToProcess ==
                 IF since = "" THEN ledgerTxs
                 ELSE SelectSeq(ledgerTxs, LAMBDA tx : tx.date >= Moment(since))
               formattedTxs ==
                 SelectSeq(transactionsToProcess,
                           LAMBDA tx : tx.type \in {"deposit", "withdrawal"})
               existing ==
                 SelectSeq(transactionsToProcess, LAMBDA tx : tx.type = "transfer")
               ccPaymentResult == convertCreditCardPayments(formattedTxs, accountsMap)
               transferResult ==
                 detectAndConvertTransfers(ccPaymentResult.remaining, dateTolerance,
                                           existing)
           IN /\ existingTransfers' = existing
              /\ paymentTxs' = formattedTxs
              /\ paymentAccountsMap' = accountsMap
              /\ IF formattedTxs = <<>>
                   THEN /\ pc' = "done"
                        /\ UNCHANGED <<paymentResult, transactions, result>>
                   ELSE /\ paymentResult' = ccPaymentResult
                        /\ transactions' = ccPaymentResult.remaining
                        /\ result' = transferResult
                        /\ pc' = IF \/ /\ ccPaymentResult.transfers = <<>>
                                         /\ transferResult.transfers = <<>>
                                         /\ transferResult.duplicatesOfExisting = <<>>
                                      \/ dryRun
                                   THEN "done" ELSE "deleteDuplicates"
        /\ UNCHANGED <<dateTolerance, mpc, writes, failures>>
  /\ idx' = 1
  /\ UNCHANGED <<args, since, run, scraped, scrapResult, ledgerAccounts,
                 ledgerTxs, nextTxId, ledgerConfig, expenseAccountCache,
                 getTxsByTagCache, state, accountsMaps, scrapeFormattedTxs,
                 preparedFireTxs, transferDetectedTxs, deduplicatedTxs,
                 currentTxMap, hist, ppc, identityTx, identifyMethodMap,
                 externalId, ipc, pages, nextPage, fireFlyData, listResult,
                 gpc, configResponse, fireflyState, spc, allTxs, toDelete,
                 scrapeUsers, parallel, promises, settleOrder, actionResults,
                 apc>>

\* the lists the three loops walk
BackfillItems(loop) ==
  CASE loop = "deleteDuplicates" -> result.duplicatesOfExisting
    [] loop = "convertPayments"  -> paymentResult.transfers
    [] loop = "convertPairs"     -> result.transfers

\* formattedTxs.find((tx) => tx.external_id === extId): the position of the
\* first such transaction, 0 for undefined
FindOriginal(extId) ==
  LET hits == {k \in DOMAIN paymentTxs : paymentTxs[k].external_id = extId}
  IN IF hits = {} THEN 0 ELSE CHOOSE k \in hits : \A j \in hits : k <= j

\* transfer.external_id.split('_')[n]; the external ids of the model's
\* ledgers hold no underscore, so the parts are the two ids joined
SplitExternalId(transferExternalId, n) ==
  LET ids == {paymentTxs[k].external_id : k \in DOMAIN paymentTxs}
      parts == CHOOSE p \in ids \X ids :
                 TransferExternalId(p[1], p[2]) = transferExternalId
  IN parts[n]

\* the requests of the try block of the k-th item of a loop, none when an
\* original transaction is not found
BackfillRequests(loop, k) ==
  LET item == BackfillItems(loop)[k]
      delete(id) == [op |-> "deleteTx", id |-> id]
      create(tx) == [op |-> "createTx", tx |-> tx]
  IN CASE loop = "deleteDuplicates" ->
            <<delete(item.withdrawal.id), delete(item.deposit.id)>>
       [] loop = "convertPayments" ->
            LET o == FindOriginal(item.external_id)
            IN IF o = 0 THEN <<>>
               ELSE <<delete(paymentTxs[o].id), create(item)>>
       [] loop = "convertPairs" ->
            LET w == FindOriginal(SplitExternalId(item.external_id, 1))
                d == FindOriginal(SplitExternalId(item.external_id, 2))
            IN IF w = 0 \/ d = 0 THEN <<>>
               ELSE <<delete(paymentTxs[w].id), delete(paymentTxs[d].id),
                      create(item)>>

RECURSIVE Issue(_, _, _, _, _)
\* the awaited requests of a try block from the k-th on: a request that
\* fails (failAt, or a delete of a transaction the ledger does not hold)
\* throws and ends the block
Issue(reqs, k, failAt, loop, st) ==
  IF k > Len(reqs) THEN st
  ELSE
    LET r == reqs[k]
        key == IF r.op = "deleteTx" THEN r.id ELSE r.tx.external_id
        held == r.op = "createTx"
                  \/ \E e \in DOMAIN st.ledger : st.ledger[e].id = r.id
    IN IF k = failAt \/ ~held
         THEN [st EXCEPT !.log = Append(@, Write(r.op, loop, key, FALSE))]
         ELSE Issue(reqs, k + 1, failAt, loop,
                    [ ledger |-> IF r.op = "deleteTx"
                                   THEN LedgerDelete(st.ledger, r.id)
                                   ELSE Append(st.ledger, WithId(r.tx, st.next)),
                      next   |-> IF r.op = "deleteTx" THEN st.next ELSE st.next + 1,
                      log    |-> Append(st.log, Write(r.op, loop, key, TRUE)) ])

\* one turn of a loop: the try block of the item, whose catch logs the error
\* and lets the loop go on
BackfillItem ==
  /\ pc \in {"deleteDuplicates", "convertPayments", "convertPairs"}
  /\ idx <= Len(BackfillItems(pc))
  /\ LET reqs == BackfillRequests(pc, idx)
     IN \E failAt \in 0..Len(reqs) :
          LET out == Issue(reqs, 1, failAt, pc,
                           [ledger |-> ledgerTxs, next |-> nextTxId, log |-> <<>>])
          IN /\ failAt # 0 => failures < MaxFailures /\ Len(out.log) = failAt
             /\ ledgerTxs' = out.ledger
             /\ nextTxId' = out.next
             /\ writes' = writes \o out.log
             /\ failures' = failures + (IF failAt # 0 THEN 1 ELSE 0)
  /\ idx' = idx + 1
  /\ UNCHANGED <<matcherVars, unitVars, args, since, pc, run, scraped,
                 scrapResult, ledgerAccounts, ledgerConfig, expenseAccountCache,
                 getTxsByTagCache, state, accountsMaps, scrapeFormattedTxs,
                 preparedFireTxs, transferDetectedTxs, deduplicatedTxs,
                 currentTxMap, hist>>

\* a loop has walked its list: the next loop starts, the mode returns after
\* the last
BackfillLoopDone ==
  /\ pc \in {"deleteDuplicates", "convertPayments", "convertPairs"}
  /\ idx > Len(BackfillItems(pc))
  /\ pc' = (CASE pc = "deleteDuplicates" -> "convertPayments"
              [] pc = "convertPayments"  -> "convertPairs"
              [] pc = "convertPairs"     -> "done")
  /\ idx' = 1
  /\ UNCHANGED <<matcherVars, unitVars, args, since, run, scraped, scrapResult,
                 ledgerAccounts, ledgerTxs, nextTxId, ledgerConfig,
                 expenseAccountCache, getTxsByTagCache, state, accountsMaps,
                 scrapeFormattedTxs, preparedFireTxs, transferDetectedTxs,
                 deduplicatedTxs, currentTxMap, writes, failures, hist>>

SpecBackfill ==
  InitBackfill /\ [][BackfillRead \/ BackfillItem \/ BackfillLoopDone]_vars

\* ------------------------------------------------------------------------
\* Properties of the import
\* ------------------------------------------------------------------------
Keys(list) == [k \in DOMAIN list |-> list[k].external_id]

StageSet == {Stages[k] : k \in DOMAIN Stages}

\* the run has computed its classified list and its ledger snapshot
Classified == pc \in StageSet \cup {"finish", "done"}

TxOps == {"createTx", "updateTx", "deleteTx"}

\* the transaction writes the run has issued so far
TxWrites == SelectSeq(writes, LAMBDA w : w.op \in TxOps)

\* C6 ---------------------------------------------------------------------
\* the positions of a list that hold the first record of their external_id
FirstOccurrences(list) ==
  {i \in DOMAIN list : \A j \in 1..(i - 1) : list[j].external_id # list[i].external_id}

IsReferenceTransfer(tx) ==
  tx.type = "transfer" /\ tx.notes = "Credit Card Payment (auto-detected)"

\* C6: the list handed to the planner holds each external_id at most once;
\* its k-th record is the record at the k-th first-occurrence position of the
\* classified list, so a reference-pass transfer wins over a record of the
\* matcher's output with the same external_id; every record of a create or
\* update set is one of these kept records.
C6_DedupKeepsFirst ==
  Classified =>
    LET F == FirstOccurrences(transferDetectedTxs)
    IN /\ \A i, j \in DOMAIN deduplicatedTxs :
            i # j => deduplicatedTxs[i].external_id # deduplicatedTxs[j].external_id
       /\ Len(deduplicatedTxs) = Cardinality(F)
       /\ \A i \in F :
            deduplicatedTxs[Cardinality({j \in F : j <= i})] = transferDetectedTxs[i]
       /\ \A i \in DOMAIN transferDetectedTxs :
            IsReferenceTransfer(transferDetectedTxs[i]) =>
              \E k \in DOMAIN deduplicatedTxs :
                /\ deduplicatedTxs[k].external_id = transferDetectedTxs[i].external_id
                /\ IsReferenceTransfer(deduplicatedTxs[k])
       /\ \A st \in StageSet : \A k \in DOMAIN StageList(st) :
            \E i \in F : StageList(st)[k] = transferDetectedTxs[i]

\* a reference-pass transfer and a later record of the matcher's output share
\* an external_id, the later one was dropped and the import finished
C6_Witness ==
  /\ pc = "done"
  /\ \E i, j \in DOMAIN transferDetectedTxs :
       /\ i < j
       /\ IsReferenceTransfer(transferDetectedTxs[i])
       /\ ~IsReferenceTransfer(transferDetectedTxs[j])
       /\ transferDetectedTxs[i].external_id = transferDetectedTxs[j].external_id
  /\ Len(deduplicatedTxs) < Len(transferDetectedTxs)

\* C7 ---------------------------------------------------------------------
\* the items a stage has attempted: the first request of each
Attempts(stage) ==
  LET first == SelectSeq(writes, LAMBDA w :
                 /\ w.stage = stage
                 /\ w.op = (IF stage = "create" THEN "createTx"
                            ELSE IF stage = "typeUpdate" THEN "deleteTx"
                            ELSE "updateTx"))
  IN [k \in DOMAIN first |-> first[k].key]

StageNumber(p) ==
  CASE p = "create" -> 1 [] p = "typeUpdate" -> 2 [] p = "addDestination" -> 3
    [] p = "update" -> 4 [] OTHER -> 5

Prefix(list, n) == [k \in 1..n |-> list[k]]

\* C7: whatever writes fail, a stage that walks its list has attempted each
\* item of the list once, in order, when the run has left the stage, and the
\* first idx - 1 items while the run is in it; the run ends in a fatal error
\* only on a failed account creation or a failed tag lookup before the stages
\* or on the failed save of the last-import state after them.
C7_FailureIsolation ==
  /\ \A st \in StageSet :
       (StageWrites(st) /\ (Classified
                             \/ (pc = "fatal" /\ writes[Len(writes)].stage = "finish")))
         => IF StageNumber(pc) > StageNumber(st)
              THEN Attempts(st) = Keys(StageList(st))
            ELSE IF pc = st
              THEN /\ idx - 1 <= Len(StageList(st))
                   /\ Attempts(st) = Keys(Prefix(StageList(st), idx - 1))
            ELSE Attempts(st) = <<>>
  /\ pc = "fatal" =>
       /\ writes # <<>>
       /\ ~writes[Len(writes)].ok
       /\ writes[Len(writes)].stage \in {"accounts", "manipulate", "finish"}

\* a write of one item failed, a later item of the same stage was attempted
\* all the same and the run finished
C7_Witness ==
  /\ pc = "done"
  /\ \E i, j \in DOMAIN writes :
       /\ i < j
       /\ ~writes[i].ok
       /\ writes[i].stage \in StageSet
       /\ writes[j].stage = writes[i].stage
       /\ writes[j].key # writes[i].key

\* C2 ---------------------------------------------------------------------
\* the second run of a normal import, the first having started on an empty
\* ledger and ended without a failed request, on the same source snapshot
SecondRunOnSyncedLedger ==
  /\ run = 2
  /\ ~dryRun
  /\ hist.ledgerWasEmpty
  /\ hist.prevClean
  /\ Classified

\* C2 as stated: on such a second run the create and update sets the
\* planner computes are empty and the run issues no transaction write.
C2_SecondRunPlansEmpty ==
  SecondRunOnSyncedLedger =>
    /\ toCreate = <<>>
    /\ toTypeUpdate = <<>>
    /\ toAddDestination = <<>>
    /\ (~skipEdit => toUpdate = <<>>)
    /\ TxWrites = <<>>

\* C8 ---------------------------------------------------------------------
\* C8 as stated: a dry run issues no write request of any kind and leaves
\* the saved last-import state as it was.
C8_DryRunWritesNothing ==
  dryRun => (writes = <<>> /\ ledgerConfig = EmptyMap)

\* C9 ---------------------------------------------------------------------
\* C9 as stated: with --skip-edit no in-place update of the toUpdate stage
\* is issued; without it a finished normal run has updated every toUpdate item.
C9_SkipEditSkipsFieldUpdates ==
  /\ "--skip-edit" \in args => Attempts("update") = <<>>
  /\ ("--skip-edit" \notin args /\ ~dryRun /\ pc = "done") =>
       Attempts("update") = Keys(toUpdate)

\* C10 --------------------------------------------------------------------
\* C10 as stated: every run starts with empty lookup caches.
C10_RunsStartWithEmptyCaches ==
  pc = "accounts" =>
    (expenseAccountCache = EmptyMap /\ getTxsByTagCache = EmptyMap)


\* ------------------------------------------------------------------------
\* The reference pass on its own
\* ------------------------------------------------------------------------
CreditCards(accountsMap) ==
  {n \in DOMAIN accountsMap : accountsMap[n].kind = "credit-card"}

\* the cards a reference stands for, read in the widest sense: the card whose
\* full number it is, otherwise every card whose last four digits it ends with
Resolved(ref, accountsMap) ==
  IF ref \in CreditCards(accountsMap) THEN {ref}
  ELSE {n \in CreditCards(accountsMap) : Last4(n) = Last4(ref)}

\* the transfers the pass made out of tx
PaymentTransfersOf(tx) ==
  {j \in DOMAIN paymentResult.transfers :
     /\ paymentResult.transfers[j].type = "transfer"
     /\ paymentResult.transfers[j].external_id = tx.external_id
     /\ paymentResult.transfers[j].internal_reference = tx.internal_reference
     /\ paymentResult.transfers[j].source_id = tx.source_id}

PassedThrough(tx) ==
  /\ \E j \in DOMAIN paymentResult.remaining : paymentResult.remaining[j] = tx
  /\ PaymentTransfersOf(tx) = {}

\* C11: a withdrawal with a non-empty internal_reference becomes a transfer
\* exactly when its reference resolves to exactly one credit-card account of
\* the accountsMap, and then the destination is that account; a reference
\* that resolves to no card or to more than one card leaves the withdrawal
\* unchanged in remaining.
C11_ReferenceSettlement ==
  ppc = "done" =>
    \A k \in DOMAIN paymentTxs :
      LET tx    == paymentTxs[k]
          cards == Resolved(tx.internal_reference, paymentAccountsMap)
      IN (tx.type = "withdrawal" /\ tx.internal_reference # "") =>
           IF Cardinality(cards) = 1
           THEN /\ PaymentTransfersOf(tx) # {}
                /\ \A j \in PaymentTransfersOf(tx) :
                     \A n \in cards :
                       paymentResult.transfers[j].destination_id
                         = paymentAccountsMap[n].id
           ELSE PassedThrough(tx)


\* ------------------------------------------------------------------------
\* Transfers produced by the passes of a run
\* ------------------------------------------------------------------------
WellFormedTransfer(tx) ==
  /\ tx.source_id # ""
  /\ tx.destination_id # ""
  /\ tx.source_id # tx.destination_id

\* C12: every record of type transfer that a pass of the run emits (the
\* billing-cycle pass into preparedFireTxs, the reference pass and the pair
\* matcher into transferDetectedTxs and deduplicatedTxs) has a source account
\* id and a destination account id, and the two differ; a withdrawal of a
\* credit-card account never becomes a transfer from the card to itself.
C12_TransfersWellFormed ==
  \A list \in {preparedFireTxs, transferDetectedTxs, deduplicatedTxs} :
    \A k \in DOMAIN list :
      list[k].type = "transfer" => WellFormedTransfer(list[k])


\* ------------------------------------------------------------------------
\* Scrape failures
\* ------------------------------------------------------------------------
FailedScrape == \E k \in DOMAIN scrapResult : ~scrapResult[k].success

\* the account numbers of the users whose scrape succeeded
SucceededNumbers ==
  {ScrapperAccounts[k].accountNumber :
     k \in {j \in DOMAIN scrapResult : scrapResult[j].success}}

\* the importable transactions of the successfully scraped accounts
ScrapedOfSucceeded ==
  SelectSeq(scraped, LAMBDA x :
    x.account \in SucceededNumbers /\ x.status = "completed" /\ x.chargedAmount # 0)

\* the external_id normalisation gives to a scraped transaction
ExternalIdOf(x) ==
  getExternalId(x, ScrapperAccountOf(x.account).accountDetails.type,
                IdentifyMethodConfig)

Normalized == pc \in {"classify"} \cup StageSet \cup {"finish", "done"}

\* the id is carried by a classified record or by a leg of a synthesized transfer
IsClassified(id) ==
  \E k \in DOMAIN transferDetectedTxs :
    \/ transferDetectedTxs[k].external_id = id
    \/ \E j \in DOMAIN scrapeFormattedTxs :
         transferDetectedTxs[k].external_id
           \in {TransferExternalId(id, scrapeFormattedTxs[j].external_id),
                TransferExternalId(scrapeFormattedTxs[j].external_id, id)}

\* C13: a failed scrape of one account never ends the run: every user has
\* its result recorded, a fatal end comes only from a failed ledger request,
\* the transactions of the successfully scraped accounts, and only these,
\* are normalized, each of them is classified (unless the ledger already
\* holds transfers it can be reconciled with), and a run that is not dry
\* attempts the creation of every record of toCreate.
C13_ScrapeFailureIsolation ==
  /\ pc # "off" => DOMAIN scrapResult = DOMAIN FlatUsers
  /\ pc = "fatal" =>
       /\ writes # <<>>
       /\ ~writes[Len(writes)].ok
  /\ Normalized =>
       Keys(scrapeFormattedTxs)
         = [k \in DOMAIN ScrapedOfSucceeded |-> ExternalIdOf(ScrapedOfSucceeded[k])]
  /\ Classified =>
       \A k \in DOMAIN scrapeFormattedTxs :
         \/ IsClassified(scrapeFormattedTxs[k].external_id)
         \/ \E e \in DOMAIN ledgerTxs : ledgerTxs[e].type = "transfer"
  /\ (pc = "done" /\ ~dryRun) => Attempts("create") = Keys(toCreate)

\* the scrape of one account failed, the run went on to its end and created
\* a transaction of the other account
C13_Witness ==
  /\ FailedScrape
  /\ pc = "done"
  /\ \E i \in DOMAIN writes :
       /\ writes[i].op = "createTx"
       /\ writes[i].ok
       /\ \E k \in DOMAIN ScrapedOfSucceeded :
            ExternalIdOf(ScrapedOfSucceeded[k]) = writes[i].key


\* ------------------------------------------------------------------------
\* The --since option
\* ------------------------------------------------------------------------
\* --since was given a value that moment() does not take for a date
InvalidSince == since # "" /\ Moment(since) = InvalidDate

\* C14: with an invalid --since date a normal import is a fatal error: the
\* process ends before any source is scraped (no scraper has been started
\* and has answered) and before any write request is sent to the ledger.
C14_InvalidSinceIsFatal ==
  InvalidSince =>
    /\ pc \in {"off", "fatal"}
    /\ scrapResult = <<>>
    /\ writes = <<>>


\* ------------------------------------------------------------------------
\* The identity strategy
\* ------------------------------------------------------------------------
\* the strategy configured for the account type of the transaction
ConfiguredMethod == identifyMethodMap[identityTx.account.type]

\* C15: when the identity strategy configured for the account type is
\* neither "hash" nor "identifier", getExternalId fails: it throws, no
\* external_id is produced and no other strategy is silently used instead.
C15_UnknownStrategyFails ==
  (ipc \notin {"off", "input"} /\ ConfiguredMethod \notin {"", "hash", "identifier"})
    => (ipc = "threw" /\ externalId = "")


\* ------------------------------------------------------------------------
\* Ledger reads
\* ------------------------------------------------------------------------
RECURSIVE Concat(_, _)
\* the data of the first n pages, in order
Concat(ps, n) == IF n = 0 THEN <<>> ELSE Concat(ps, n - 1) \o ps[n].data

\* the first page that was not answered with 200, 0 when every page was
FirstError(ps) ==
  IF \A k \in DOMAIN ps : ps[k].status = 200 THEN 0
  ELSE CHOOSE k \in DOMAIN ps :
         ps[k].status # 200 /\ \A j \in 1..(k - 1) : ps[j].status = 200

\* C16: a paginated read follows the next link until it is null and returns
\* the data of all pages in order; a 404 answer makes the read return an
\* empty list, any other error is thrown to the caller; reading the
\* persisted state returns the parsed blob, the empty state on 404, and
\* throws on any other error.
C16_LedgerReads ==
  /\ gpc \in {"returned", "threw"} =>
       LET e == FirstError(pages)
       IN IF e = 0
            THEN gpc = "returned" /\ listResult = Concat(pages, Len(pages))
          ELSE IF pages[e].status = 404
            THEN gpc = "returned" /\ listResult = <<>>
          ELSE gpc = "threw"
  /\ spc \in {"returned", "threw"} =>
       IF configResponse.status = 200
         THEN spc = "returned" /\ fireflyState = JsonParse(configResponse.data)
       ELSE IF configResponse.status = 404
         THEN spc = "returned" /\ fireflyState = EmptyMap
       ELSE spc = "threw"

\* a read of three pages returned their data in order, another read would
\* have been ended by a 404; here the state read got a 404
C16_Witness ==
  /\ gpc = "returned"
  /\ Len(pages) = 3
  /\ FirstError(pages) = 0
  /\ listResult = <<"a", "b", "b", "a">>
  /\ spc = "returned"
  /\ configResponse.status = 404


\* ------------------------------------------------------------------------
\* The duplicate removal
\* ------------------------------------------------------------------------
\* the transactions of a list that carry the external_id
Carrying(list, extId) ==
  {k \in DOMAIN list : list[k].external_id = extId}

StoredIds(list) == {list[k].external_id : k \in DOMAIN list} \ {""}

InLedger(tx) == \E k \in DOMAIN ledgerTxs : ledgerTxs[k] = tx

\* C18: when the duplicate removal has completed, every external_id that
\* more than one ledger transaction carried is carried by exactly one, a
\* transaction of the group with no earlier-dated transaction in the group;
\* a transaction without external_id or with an external_id of its own is
\* never deleted, at any point of the run.
C18_RemoveDuplicates ==
  /\ pc = "done" =>
       \A e \in StoredIds(allTxs) :
         Cardinality(Carrying(allTxs, e)) > 1 =>
           /\ Cardinality(Carrying(ledgerTxs, e)) = 1
           /\ \A k \in Carrying(ledgerTxs, e) :
                /\ \E j \in Carrying(allTxs, e) : allTxs[j] = ledgerTxs[k]
                /\ \A j \in Carrying(allTxs, e) :
                     ledgerTxs[k].date <= allTxs[j].date
  /\ pc \in {"delete", "done", "fatal"} =>
       \A k \in DOMAIN allTxs :
         (\/ allTxs[k].external_id = ""
          \/ Cardinality(Carrying(allTxs, allTxs[k].external_id)) = 1)
           => InLedger(allTxs[k])

\* the removal completed on a ledger whose duplicated external_id had its
\* earliest transaction read last, next to a transaction without external_id
C18_Witness ==
  /\ pc = "done"
  /\ Len(allTxs) = 3
  /\ allTxs[1].external_id = "x" /\ allTxs[1].date = MidDate
  /\ allTxs[2].external_id = ""
  /\ allTxs[3].external_id = "x" /\ allTxs[3].date = 0
  /\ ledgerTxs = <<allTxs[2], allTxs[3]>>


\* ------------------------------------------------------------------------
\* The plan of a run
\* ------------------------------------------------------------------------
\* the stages whose list holds the record
StagesOf(x) ==
  {stage \in StageSet : \E k \in DOMAIN StageList(stage) : StageList(stage)[k] = x}

\* the stages that sent a transaction request about the external_id
WritingStages(id) ==
  {writes[i].stage : i \in {j \in DOMAIN writes :
                              /\ writes[j].stage \in StageSet
                              /\ writes[j].op \in TxOps
                              /\ writes[j].key = id}}

\* C20: the four lists of the plan are pairwise disjoint (no record of the
\* classified list is in two of them), with editing enabled every record of
\* the classified list is in one of them, and no external_id is written by
\* more than one stage of a run.
C20_PlanPartition ==
  Classified =>
    /\ \A k \in DOMAIN deduplicatedTxs :
         /\ Cardinality(StagesOf(deduplicatedTxs[k])) <= 1
         /\ ~skipEdit => Cardinality(StagesOf(deduplicatedTxs[k])) = 1
    /\ \A i \in DOMAIN writes : Cardinality(WritingStages(writes[i].key)) <= 1

\* a finished run with editing whose plan has records in two stages at least
\* and has written them
C20_Witness ==
  /\ pc = "done"
  /\ ~skipEdit
  /\ ~dryRun
  /\ Cardinality({stage \in StageSet : StageList(stage) # <<>>}) >= 2
  /\ Cardinality({writes[i].stage : i \in DOMAIN writes} \cap StageSet) >= 2


\* ------------------------------------------------------------------------
\* The type update
\* ------------------------------------------------------------------------
\* the requests a step has sent
NewWrites == SubSeq(writes', Len(writes) + 1, Len(writes'))

\* the ledger's entries with the external_id
EntriesOf(ledger, id) == SelectSeq(ledger, LAMBDA e : e.external_id = id)

\* a step of the type-update stage that handles an item
TypeUpdateStep == pc = "typeUpdate" /\ idx' = idx + 1

\* what C21 says of a step in every reading: the delete first, the create
\* only after the delete succeeded, nothing changed when the delete failed,
\* the deleted entry not restored when the create failed
DeleteThenCreate(tx, existingTx, new) ==
  /\ Len(new) \in {1, 2}
  /\ new[1].op = "deleteTx" /\ new[1].key = tx.external_id
  /\ ~new[1].ok => Len(new) = 1 /\ ledgerTxs' = ledgerTxs
  /\ new[1].ok =>
       /\ Len(new) = 2
       /\ new[2].op = "createTx" /\ new[2].key = tx.external_id
       /\ new[2].ok =>
            ledgerTxs' = LedgerCreate(LedgerDelete(ledgerTxs, existingTx.id),
                                      nextTxId, tx)
       /\ ~new[2].ok => ledgerTxs' = LedgerDelete(ledgerTxs, existingTx.id)

\* C21 as stated: a type update sends the delete of the existing entry first
\* and the create only after the delete succeeded; when the delete fails the
\* ledger is left as it was and no create is sent; when the create fails
\* after the delete the ledger holds no entry for the external_id.
C21_TypeUpdateLeavesNoEntry ==
  [][TypeUpdateStep =>
       LET tx == toTypeUpdate[idx]
       IN /\ DeleteThenCreate(tx, currentTxMap[tx.external_id], NewWrites)
          /\ (Len(NewWrites) = 2 /\ ~NewWrites[2].ok) =>
               EntriesOf(ledgerTxs', tx.external_id) = <<>>]_vars

\* C21, amended: as stated, except that after a failed create the ledger
\* lacks the deleted entry, which nothing restores, and holds the other
\* entries with the same external_id, if it held any: it holds no entry for
\* the external_id exactly when the deleted entry was the only one.
C21_TypeUpdateIsDeleteThenCreate ==
  [][TypeUpdateStep =>
       LET tx == toTypeUpdate[idx]
           existingTx == currentTxMap[tx.external_id]
       IN /\ DeleteThenCreate(tx, existingTx, NewWrites)
          /\ (Len(NewWrites) = 2 /\ ~NewWrites[2].ok) =>
               /\ EntriesOf(ledgerTxs', tx.external_id) =
                    SelectSeq(EntriesOf(ledgerTxs, tx.external_id),
                              LAMBDA e : e.id # existingTx.id)
               /\ (EntriesOf(ledgerTxs', tx.external_id) = <<>>) <=>
                    (Len(EntriesOf(ledgerTxs, tx.external_id)) = 1)]_vars

\* a type update whose delete succeeded and whose create failed has left the
\* ledger without an entry for the external_id
C21_Witness ==
  /\ pc = "typeUpdate"
  /\ Len(writes) >= 2
  /\ writes[Len(writes) - 1] =
       Write("deleteTx", "typeUpdate", writes[Len(writes)].key, TRUE)
  /\ writes[Len(writes)].op = "createTx" /\ ~writes[Len(writes)].ok
  /\ EntriesOf(ledgerTxs, writes[Len(writes)].key) = <<>>


\* ------------------------------------------------------------------------
\* Recovery by running again
\* ------------------------------------------------------------------------
\* the requests of the run about transactions, as (stage, request, external_id)
PlannedWrites ==
  SelectSeq(writes, LAMBDA w : w.stage \in StageSet /\ w.op \in TxOps)

\* C22 as stated: a run sends no planned write twice; a record whose create,
\* or the create of its type update, failed in the previous run is absent
\* from the ledger index of this run and is in toCreate; and once a run over
\* the snapshot has written everything, the create and type-update plans of
\* the next run are empty.
C22_RecoveryByRerun ==
  /\ \A i, j \in DOMAIN PlannedWrites :
       (/\ PlannedWrites[i].stage = PlannedWrites[j].stage
        /\ PlannedWrites[i].op = PlannedWrites[j].op
        /\ PlannedWrites[i].key = PlannedWrites[j].key) => i = j
  /\ Classified =>
       \A id \in hist.failedCreates :
         /\ id \notin DOMAIN currentTxMap
         /\ \E k \in DOMAIN toCreate : toCreate[k].external_id = id
  /\ (Classified /\ hist.prevClean) =>
       (toCreate = <<>> /\ toTypeUpdate = <<>>)


\* ------------------------------------------------------------------------
\* Failures of the settlement passes
\* ------------------------------------------------------------------------
\* C23 as stated: a failed lookup of the billing-cycle pass is caught: the
\* pass always returns, with one record for every record it was given, and
\* the import goes on to the classification.
C23_SettlementFailureIsolation ==
  [][(pc = "normalize" /\ idx > Len(FlatTxs(scraped, accountsMaps))) =>
       /\ pc' = "classify"
       /\ Len(preparedFireTxs') = Len(scrapeFormattedTxs)]_vars


\* ------------------------------------------------------------------------
\* The billing-cycle match
\* ------------------------------------------------------------------------
\* the candidates of the record: the card accounts its description maps to
Candidates(tx) ==
  IF tx.description \in DOMAIN getCcDesc(accountsMaps)
    THEN getCcDesc(accountsMaps)[tx.description].ids
    ELSE <<>>

\* the net tagged amount of the account for the billing period of the record
NetTagged(tx, accountId) ==
  getTxAmount(tx.process_date, accountId, EmptyMap, ledgerTxs)

SignAdjusted(tx) == IF tx.type = "deposit" THEN tx.amount ELSE 0 - tx.amount

\* the candidate C24 settles on, "" when none qualifies
Qualifying(tx) ==
  LET ids == Candidates(tx)
      hits == {k \in DOMAIN ids : NetTagged(tx, ids[k]) = SignAdjusted(tx)}
  IN IF Len(ids) = 1
       THEN (IF NetTagged(tx, ids[1]) = 0 THEN "" ELSE ids[1])
     ELSE IF hits = {} THEN ""
     ELSE ids[CHOOSE k \in hits : \A j \in hits : k <= j]

\* the record is the given one but for its type and the side the account fills
TransferTo(out, given, accountId) ==
  /\ out.type = "transfer"
  /\ accountId \in {out.source_id, out.destination_id}
  /\ given.source_id # "" => out.source_id = given.source_id
  /\ given.destination_id # "" => out.destination_id = given.destination_id
  /\ [out EXCEPT !.type = given.type, !.source_id = given.source_id,
                 !.destination_id = given.destination_id] = given

\* C24: a record that is no transfer, has a process date and whose
\* description maps to candidates comes out of the pass as a transfer to the
\* only candidate unless that account's net tagged amount is zero, with
\* several candidates as a transfer to the first whose net tagged amount is
\* the record's sign-adjusted amount, and as it was given when none qualifies.
C24_BillingCycleMatch ==
  pc = "classify" =>
    \A k \in DOMAIN scrapeFormattedTxs :
      LET tx == scrapeFormattedTxs[k]
          given == [tx EXCEPT !.tags = ccTag(tx, accountsMaps)]
      IN (tx.type # "transfer" /\ tx.process_date # "" /\ Candidates(tx) # <<>>) =>
           IF Qualifying(tx) = ""
             THEN preparedFireTxs[k] = given
             ELSE TransferTo(preparedFireTxs[k], given, Qualifying(tx))

\* with two candidates the record went to the second, the first one's net
\* amount not being the record's
C24_Witness ==
  /\ pc = "classify"
  /\ \E k \in DOMAIN scrapeFormattedTxs :
       /\ Len(Candidates(scrapeFormattedTxs[k])) = 2
       /\ preparedFireTxs[k].type = "transfer"
       /\ scrapeFormattedTxs[k].type = "withdrawal"
       /\ preparedFireTxs[k].destination_id = Candidates(scrapeFormattedTxs[k])[2]


\* ------------------------------------------------------------------------
\* The order of the writes
\* ------------------------------------------------------------------------
\* the place of the external_id in the list of the stage
PlaceIn(stage, id) ==
  CHOOSE k \in DOMAIN StageList(stage) : StageList(stage)[k].external_id = id

\* C25: the transaction writes of a run are sent one after the other: all
\* the creates in the order of toCreate, then the type updates, then the
\* add-destination updates, then the field updates, each stage in the order
\* of its list, and the create of a type update right after its delete.
C25_WriteOrder ==
  \A i, j \in DOMAIN PlannedWrites :
    i < j =>
      LET a == PlannedWrites[i]
          b == PlannedWrites[j]
      IN /\ StageNumber(a.stage) <= StageNumber(b.stage)
         /\ a.stage = b.stage => PlaceIn(a.stage, a.key) <= PlaceIn(b.stage, b.key)
         /\ (a.stage = b.stage /\ a.key = b.key) =>
              /\ j = i + 1
              /\ a = Write("deleteTx", "typeUpdate", a.key, TRUE)
              /\ b.op = "createTx"

\* a finished run that has created a record and then, in the type-update
\* stage, deleted and created another
C25_Witness ==
  /\ pc = "done"
  /\ Len(PlannedWrites) = 3
  /\ PlannedWrites[1].stage = "create"
  /\ PlannedWrites[2].stage = "typeUpdate" /\ PlannedWrites[2].op = "deleteTx"
  /\ PlannedWrites[3].stage = "typeUpdate" /\ PlannedWrites[3].op = "createTx"

\* C28 --------------------------------------------------------------------
\* the withdrawal W of the prepared list was turned into a card payment
\* transfer by the reference pass
Reclassified(W) ==
  \E j \in DOMAIN transferDetectedTxs :
    LET t == transferDetectedTxs[j]
    IN /\ IsReferenceTransfer(t)
       /\ t = [W EXCEPT !.type = "transfer",
                        !.destination_id = t.destination_id,
                        !.description = t.description,
                        !.notes = t.notes]

\* the positions of the prepared withdrawals and deposits
PreparedOfType(type) ==
  {k \in DOMAIN preparedFireTxs : preparedFireTxs[k].type = type}

\* the classified list holds the reference pass's transfers and what the
\* pair matcher made of the reference pass's remaining list: a transfer
\* inferred from a pair has for legs a deposit and a withdrawal that the
\* reference pass left alone, never a withdrawal it reclassified; a record
\* that came to the passes as a transfer is in the classified list as it
\* came, as many times as it came.
C28_PassOrdering ==
  Classified =>
    /\ \A j \in DOMAIN transferDetectedTxs :
         LET t == transferDetectedTxs[j]
         IN (\E w \in PreparedOfType("withdrawal"), d \in PreparedOfType("deposit") :
               /\ t.type = "transfer"
               /\ t.external_id =
                    TransferExternalId(preparedFireTxs[w].external_id,
                                       preparedFireTxs[d].external_id))
            => \E w \in PreparedOfType("withdrawal"), d \in PreparedOfType("deposit") :
                 /\ BuiltFrom(t, preparedFireTxs[d], preparedFireTxs[w])
                 /\ ~Reclassified(preparedFireTxs[w])
    /\ \A k \in PreparedOfType("transfer") :
         Copies(transferDetectedTxs, preparedFireTxs[k])
           = Copies(preparedFireTxs, preparedFireTxs[k])

\* C29 --------------------------------------------------------------------
\* the state keys of the users whose scrape succeeded in this run
SucceededKeys ==
  {getAccountIdentification(FlatUsers[k]) :
     k \in {j \in DOMAIN scrapResult : scrapResult[j].success}}

\* the last-import state is saved by the last request of a run that is not
\* dry, and by no other: a run that ends without --dry-run has saved it once,
\* after the requests of its plan stages, failed ones included, and the
\* saved state stamps the users scraped with success with the time of the
\* run and holds every other key of the state read at the start as read.
C29_WatermarkUpdate ==
  /\ \A i \in DOMAIN writes :
       writes[i].op = "upsertConfig" =>
         i = Len(writes) /\ pc \in {"done", "fatal"} /\ ~dryRun
  /\ (pc = "done" /\ ~dryRun) =>
       /\ writes # <<>>
       /\ writes[Len(writes)] =
            Write("upsertConfig", "finish", "israeli-bank-importer", TRUE)
       /\ DOMAIN ledgerConfig = DOMAIN state \cup SucceededKeys
       /\ \A k \in DOMAIN ledgerConfig :
            ledgerConfig[k] = (IF k \in SucceededKeys THEN run ELSE state[k])
  /\ (pc = "done" /\ dryRun) => ledgerConfig = state

\* a second run in which one scrape failed has ended: the state saved keeps
\* the stamp of the first run for that user
C29_Witness ==
  /\ pc = "done"
  /\ ~dryRun
  /\ run = 2
  /\ \E k \in DOMAIN ledgerConfig : k \notin SucceededKeys /\ ledgerConfig[k] = 1
  /\ \E k \in SucceededKeys : ledgerConfig[k] = 2

\* C26 --------------------------------------------------------------------
\* scrapeAccounts returns one result per user, result k being the one of the
\* scrape called with user k's credentials, in the sequential and in the
\* parallel mode, whatever the order the scrapes finish in; in the
\* sequential mode a scrape is started only after the one before it has
\* finished.
C26_AcquisitionSlots ==
  /\ apc = "returned" =>
       /\ Len(actionResults) = Len(scrapeUsers)
       /\ \A k \in DOMAIN scrapeUsers :
            actionResults[k].credentials = scrapeUsers[k].credentials
  /\ (apc # "off" /\ ~parallel) =>
       \A k \in DOMAIN promises :
         (k > 1 /\ promises[k].status # "idle") =>
           promises[k - 1].status = "fulfilled"

\* a parallel acquisition has returned, the last user's scrape having
\* finished first
C26_Witness ==
  /\ apc = "returned"
  /\ parallel
  /\ Len(scrapeUsers) >= 2
  /\ settleOrder[1] = Len(scrapeUsers)
  /\ \E k \in DOMAIN actionResults : ~actionResults[k].success

\* C30 --------------------------------------------------------------------
\* the requests new are the protocol of a pair, as far as it got: the
\* delete of the withdrawal, the delete of the deposit, the creation of the
\* transfer, each sent only after the one before it succeeded
PairProtocol(new, withdrawalId, depositId, transferId) ==
  /\ Len(new) \in 1..3
  /\ Len(new) < 3 => ~new[Len(new)].ok
  /\ \A k \in DOMAIN new :
       /\ k < Len(new) => new[k].ok
       /\ k = 1 => new[k].op = "deleteTx" /\ new[k].key = withdrawalId
       /\ k = 2 => new[k].op = "deleteTx" /\ new[k].key = depositId
       /\ k = 3 => new[k].op = "createTx" /\ new[k].key = transferId

\* a backfill with --dry-run sends no delete and no creation; one without
\* sends, for every inferred pair, the delete of the ledger transaction of
\* its withdrawal, then the delete of that of its deposit, then the creation
\* of the transfer, stops at the first of them that fails, and goes on with
\* the next pair.
C30_BackfillProtocol ==
  /\ [](dryRun => \A k \in DOMAIN writes : writes[k].op \notin TxOps)
  /\ [][(pc = "convertPairs" /\ idx' = idx + 1) =>
          /\ pc' = "convertPairs"
          /\ \E w, d \in DOMAIN paymentTxs :
               /\ paymentTxs[w].type = "withdrawal"
               /\ paymentTxs[d].type = "deposit"
               /\ BuiltFrom(result.transfers[idx], paymentTxs[d], paymentTxs[w])
               /\ PairProtocol(NewWrites, paymentTxs[w].id, paymentTxs[d].id,
                               result.transfers[idx].external_id)]_vars

=============================================================================
